---- MODULE Spec2Model ----
(***************************************************************************)
(* A model of the circuit composer of aztec3-circuits / barretenberg:      *)
(*   - the circuit constructor state behind StandardPlonkComposer and      *)
(*     UltraComposer (variables, wires, selectors, public inputs, the      *)
(*     failed flag);                                                       *)
(*   - the copy-cycle and sigma mapping of permutation_helper.hpp;         *)
(*   - the tags of UltraComposer, the generalized mapping and the Honk    *)
(*     sigma polynomials;                                                  *)
(*   - the ROM and RAM transcripts of UltraComposer, its range lists and   *)
(*     its gate count (get_num_gates);                                     *)
(*   - the prover's work queue;                                            *)
(*   - the Montgomery field of field_declarations.hpp, scaled to four      *)
(*     limbs of LimbBits bits, with its endomorphism split;                *)
(*   - stdlib keccak, scaled to lanes of LaneBits bits.                    *)
(* std::vector is modelled as a function on 0 .. size-1, so that indices   *)
(* are the indices of the source.  In the composer sections witness values *)
(* are modelled as integers: every value built there is far below the      *)
(* 254-bit modulus, so no reduction happens.  The field section keeps the  *)
(* limbs and the reduction.                                                *)
(***************************************************************************)
EXTENDS Integers, Sequences, FiniteSets, TLC

(***************************************************************************)
(* Bounds of the model.                                                    *)
(***************************************************************************)
MaxVariables == 3
MaxGates == 2
MaxPublicInputs == 1
MaxProofOutputs == 1
MaxRecursiveInputs == 2
MaxAddGates == 1
MaxRamArrays == 1
MaxRamAccesses == 3
MaxSortRecords == 3
MaxRomArrays == 1
MaxRomReads == 1
MaxRangeVariables == 2
MaxRangeEntries == 2
MaxQueue == 2
MaxTranscript == 3
MaxTags == 1
MaxMappingGates == 1
MaxCountedRamArrays == 2

\* Witness values offered to add_variable / assert_equal_constant.
WitnessValues == {0, 1}

\* The value every variable of a permutation circuit is given.
PermutationWitnessValues == {0}

\* Witness values of the add-gate scenario: 3 + 4 = 7, and 8 instead of 7.
GateWitnessValues == {3, 4, 7, 8}

\* Values held by the cells of a RAM array, and the sizes of the arrays.
RamValues == {1, 2}

RamArraySizes == {2}

\* Values held by the cells of a ROM array, and the sizes of the arrays.
RomValues == {10, 20, 30, 40}

RomArraySizes == {4}

\* Witness values and bit counts of the range constraints: below, at and above
\* DEFAULT_PLOOKUP_RANGE_BITNUM.
RangeWitnessValues == {5, 16384, 20000}

RangeBitnums == {3, 14, 15}

\* Polynomials committed to and the labels of their commitments.
Polynomials == {"w_1", "w_2"}

Labels == {"W_1", "W_2"}

\* Indices and timestamps of the records handed to the sort.
SortIndices == {0, 1}

SortTimestamps == {0, 1, 2}

(***************************************************************************)
(* std::vector helpers (0-based).                                          *)
(***************************************************************************)
EmptyVec == <<>>

Size(v) == Cardinality(DOMAIN v)

Indices(v) == 0 .. (Size(v) - 1)

Push(v, x) == [i \in 0 .. Size(v) |-> IF i < Size(v) THEN v[i] ELSE x]

\* The vector holding the elements of a sequence
VectorOf(seq) == [i \in 0 .. (Len(seq) - 1) |-> seq[i + 1]]

\* emplace_back of two elements, in order
Push2(v, x, y) == Push(Push(v, x), y)

(***************************************************************************)
(* State of the circuit constructor and of the composer helper.            *)
(***************************************************************************)
VARIABLES
    variables,                 \* std::vector<fr> variables
    real_variable_index,       \* std::vector<uint32_t> real_variable_index
    public_inputs,             \* std::vector<uint32_t> public_inputs
    w_l, w_r, w_o,             \* wire columns: variable index per gate
    q_m, q_1, q_2, q_3, q_c,   \* selector columns
    constant_variable_indices, \* std::map<fr, uint32_t>, as a set of <<value, index>>
    real_variable_tags,        \* std::vector<uint32_t> real_variable_tags
    tau,                       \* std::map<uint32_t, uint32_t> tau, as a function on its keys
    current_tag,               \* uint32_t current_tag
    failed_flag,               \* _failed
    err_msg,                   \* _err
    contains_recursive_proof,
    recursive_proof_public_input_indices,
    circuit_proving_key,       \* "null", "key" or "failure"
    circuit_verification_key,  \* "null", "key" or "failure"
    wire_copy_cycles,          \* result of compute_wire_copy_cycles
    sigmas,                    \* result of compute_permutation_mapping (mapping.sigmas)
    ids,                       \* mapping.ids: empty unless the mapping is generalized
    sigma_lagrange,            \* the polynomials sigma_1_lagrange .. of the polynomial store,
                               \* as put by the Honk-style computation (wire -> evaluations)
    check_circuit_result,      \* what check_circuit returned, "true" or "false", when it
                               \* was the last call; "none" otherwise
    ram_arrays,                \* std::vector<RamTranscript> ram_arrays
    rom_arrays,                \* std::vector<RomTranscript> rom_arrays
    range_lists,               \* std::map<uint64_t, RangeList>: target range -> variable_indices
    circuit_finalised,         \* bool circuit_finalised
    sorted_ram_records,        \* per RAM array, the records as process_RAM_array sorted them
    read_result,               \* what the last read_ROM_array / read_RAM_array returned:
                               \* <<witness index>>, or <<>> when nothing was returned
    aborted,                   \* a fatal usage error ended the program
    sort_input,                \* records handed to the sort of RamRecord
    sort_output,               \* the records as sorted
    work_item_queue,           \* std::vector<work_item> work_item_queue
    transcript,                \* the messages sent to the verifier, in order
    call_input,                \* the arguments of a call of a function
    call_output                \* what the call returned

constructor_vars == <<variables, real_variable_index, public_inputs, w_l, w_r, w_o,
                      q_m, q_1, q_2, q_3, q_c, constant_variable_indices,
                      ram_arrays, rom_arrays, range_lists,
                      real_variable_tags, tau, current_tag>>

failure_vars == <<failed_flag, err_msg>>

recursion_vars == <<contains_recursive_proof, recursive_proof_public_input_indices>>

key_vars == <<circuit_proving_key, circuit_verification_key>>

permutation_vars == <<wire_copy_cycles, sigmas, ids, sigma_lagrange>>

memory_vars == <<circuit_finalised, sorted_ram_records, read_result, aborted>>

sort_vars == <<sort_input, sort_output>>

queue_vars == <<work_item_queue, transcript>>

call_vars == <<call_input, call_output>>

vars == <<constructor_vars, failure_vars, recursion_vars, key_vars, permutation_vars,
          check_circuit_result, memory_vars, sort_vars, queue_vars, call_vars>>

program_width == 3

\* The tag of a variable that has been given none
DUMMY_TAG == 0

num_gates == Size(w_l)

InitComposer ==
    /\ variables = EmptyVec
    /\ real_variable_index = EmptyVec
    /\ public_inputs = EmptyVec
    /\ w_l = EmptyVec /\ w_r = EmptyVec /\ w_o = EmptyVec
    /\ q_m = EmptyVec /\ q_1 = EmptyVec /\ q_2 = EmptyVec /\ q_3 = EmptyVec /\ q_c = EmptyVec
    /\ constant_variable_indices = {}
    /\ real_variable_tags = EmptyVec
    /\ tau = [t \in {DUMMY_TAG} |-> DUMMY_TAG]
    /\ current_tag = DUMMY_TAG
    /\ failed_flag = FALSE
    /\ err_msg = ""
    /\ contains_recursive_proof = FALSE
    /\ recursive_proof_public_input_indices = EmptyVec
    /\ circuit_proving_key = "null"
    /\ circuit_verification_key = "null"
    /\ wire_copy_cycles = EmptyVec
    /\ sigmas = EmptyVec
    /\ ids = EmptyVec
    /\ sigma_lagrange = EmptyVec
    /\ check_circuit_result = "none"
    /\ ram_arrays = EmptyVec
    /\ range_lists = EmptyVec
    /\ rom_arrays = EmptyVec
    /\ circuit_finalised = FALSE
    /\ sorted_ram_records = EmptyVec
    /\ read_result = <<>>
    /\ aborted = FALSE

\* Construction calls are issued until a key has been computed.
Constructing ==
    /\ circuit_proving_key = "null"
    /\ circuit_verification_key = "null"
    /\ sigmas = EmptyVec

(***************************************************************************)
(* The constructor as a value, so that a call that makes further calls     *)
(* (assert_equal_constant, add_recursive_proof) is one step.               *)
(***************************************************************************)
Composer ==
    [variables |-> variables,
     real_variable_index |-> real_variable_index,
     public_inputs |-> public_inputs,
     w_l |-> w_l, w_r |-> w_r, w_o |-> w_o,
     q_m |-> q_m, q_1 |-> q_1, q_2 |-> q_2, q_3 |-> q_3, q_c |-> q_c,
     constant_variable_indices |-> constant_variable_indices,
     real_variable_tags |-> real_variable_tags,
     tau |-> tau,
     current_tag |-> current_tag,
     failed |-> failed_flag,
     err |-> err_msg,
     contains_recursive_proof |-> contains_recursive_proof,
     recursive_proof_public_input_indices |-> recursive_proof_public_input_indices,
     ram_arrays |-> ram_arrays,
     range_lists |-> range_lists,
     rom_arrays |-> rom_arrays]

Store(s) ==
    /\ variables' = s.variables
    /\ real_variable_index' = s.real_variable_index
    /\ public_inputs' = s.public_inputs
    /\ w_l' = s.w_l /\ w_r' = s.w_r /\ w_o' = s.w_o
    /\ q_m' = s.q_m /\ q_1' = s.q_1 /\ q_2' = s.q_2 /\ q_3' = s.q_3 /\ q_c' = s.q_c
    /\ constant_variable_indices' = s.constant_variable_indices
    /\ real_variable_tags' = s.real_variable_tags
    /\ tau' = s.tau
    /\ current_tag' = s.current_tag
    /\ failed_flag' = s.failed
    /\ err_msg' = s.err
    /\ contains_recursive_proof' = s.contains_recursive_proof
    /\ recursive_proof_public_input_indices' = s.recursive_proof_public_input_indices
    /\ ram_arrays' = s.ram_arrays
    /\ range_lists' = s.range_lists
    /\ rom_arrays' = s.rom_arrays

\* failure(msg): _failed = true; _err = msg
failure(s, msg) == [s EXCEPT !.failed = TRUE, !.err = msg]

\* add_variable(in): appends the value, the new variable is its own representative
\* and has no tag
add_variable(s, in) ==
    [s EXCEPT !.variables = Push(@, in),
              !.real_variable_index = Push(@, Size(s.variables)),
              !.real_variable_tags = Push(@, DUMMY_TAG)]

\* get_variable(index): the value of the representative
get_variable(s, index) == s.variables[s.real_variable_index[index]]

\* set_public_input(witness_index)
set_public_input(s, witness_index) ==
    [s EXCEPT !.public_inputs = Push(@, witness_index)]

\* create_poly_gate(poly_triple): one row of wires and selectors
create_poly_gate(s, a, b, c, qm, ql, qr, qo, qc) ==
    [s EXCEPT !.w_l = Push(@, a), !.w_r = Push(@, b), !.w_o = Push(@, c),
              !.q_m = Push(@, qm), !.q_1 = Push(@, ql), !.q_2 = Push(@, qr),
              !.q_3 = Push(@, qo), !.q_c = Push(@, qc)]

\* create_add_gate(add_triple): a_scaling*a + b_scaling*b + c_scaling*c + const = 0
create_add_gate(s, a, b, c, a_scaling, b_scaling, c_scaling, const_scaling) ==
    create_poly_gate(s, a, b, c, 0, a_scaling, b_scaling, c_scaling, const_scaling)

\* fix_witness(witness_index, witness_value): a gate forcing the value
fix_witness(s, witness_index, witness_value) ==
    create_poly_gate(s, witness_index, witness_index, witness_index, 0, 1, 0, 0, -witness_value)

HasConstant(s, value) == \E e \in s.constant_variable_indices : e[1] = value

ConstantIndex(s, value) ==
    (CHOOSE e \in s.constant_variable_indices : e[1] = value)[2]

\* put_constant_variable(variable): the state after the call
put_constant_variable(s, value) ==
    IF HasConstant(s, value)
    THEN s
    ELSE LET t == fix_witness(add_variable(s, value), Size(s.variables), value)
         IN [t EXCEPT !.constant_variable_indices = @ \cup {<<value, Size(s.variables)>>}]

\* put_constant_variable(variable): the index it returns
put_constant_variable_index(s, value) ==
    IF HasConstant(s, value) THEN ConstantIndex(s, value) ELSE Size(s.variables)

\* assert_equal(a, b, msg): soft failure when the values differ, then the class of
\* b is merged into the class of a
assert_equal(s, a_idx, b_idx, msg) ==
    LET t == IF get_variable(s, a_idx) # get_variable(s, b_idx) /\ ~s.failed
             THEN failure(s, msg) ELSE s
        a_real == s.real_variable_index[a_idx]
        b_real == s.real_variable_index[b_idx]
    IN [t EXCEPT !.real_variable_index =
            [i \in DOMAIN @ |-> IF @[i] = b_real THEN a_real ELSE @[i]]]

(***************************************************************************)
(* permutation_helper.hpp: copy cycles and the sigma mapping.              *)
(***************************************************************************)
cycle_node(wire_index, gate_index) == [wire_index |-> wire_index, gate_index |-> gate_index]

permutation_subgroup_element(row_index, column_index, is_public_input, is_tag) ==
    [row_index |-> row_index, column_index |-> column_index,
     is_public_input |-> is_public_input, is_tag |-> is_tag]

\* wire_indices[j][i]: the variable in wire j of gate i
wire_indices(s, j, i) == IF j = 0 THEN s.w_l[i] ELSE IF j = 1 THEN s.w_r[i] ELSE s.w_o[i]

\* Mutant of PublicInputCycles: the right-wire node is put before the left-wire node
RECURSIVE PublicInputCyclesRightFirst(_, _, _)
PublicInputCyclesRightFirst(s, copy_cycles, i) ==
    IF i >= Size(s.public_inputs)
    THEN copy_cycles
    ELSE LET public_input_index == s.real_variable_index[s.public_inputs[i]]
         IN PublicInputCyclesRightFirst(s,
                [copy_cycles EXCEPT ![public_input_index] =
                    Push2(@, cycle_node(1, i), cycle_node(0, i))],
                i + 1)

\* The loop over the public inputs: cycle of public input i starts (0,i) (1,i)
RECURSIVE PublicInputCycles(_, _, _)
PublicInputCycles(s, copy_cycles, i) ==
    IF i >= Size(s.public_inputs)
    THEN copy_cycles
    ELSE LET public_input_index == s.real_variable_index[s.public_inputs[i]]
         IN PublicInputCycles(s,
                [copy_cycles EXCEPT ![public_input_index] =
                    Push2(@, cycle_node(0, i), cycle_node(1, i))],
                i + 1)

\* Mutant of GateCycles: the node goes to the cycle of the variable itself, not
\* of its representative
RECURSIVE GateCyclesNoRepresentative(_, _, _, _)
GateCyclesNoRepresentative(s, copy_cycles, i, j) ==
    IF i >= Size(s.w_l)
    THEN copy_cycles
    ELSE IF j >= program_width
    THEN GateCyclesNoRepresentative(s, copy_cycles, i + 1, 0)
    ELSE LET var_index == wire_indices(s, j, i)
         IN GateCyclesNoRepresentative(s,
                [copy_cycles EXCEPT ![var_index] =
                    Push(@, cycle_node(j, i + Size(s.public_inputs)))],
                i, j + 1)

\* The loop over the gates (i) and the wires (j), in row-major order
RECURSIVE GateCycles(_, _, _, _)
GateCycles(s, copy_cycles, i, j) ==
    IF i >= Size(s.w_l)
    THEN copy_cycles
    ELSE IF j >= program_width
    THEN GateCycles(s, copy_cycles, i + 1, 0)
    ELSE LET var_index == s.real_variable_index[wire_indices(s, j, i)]
         IN GateCycles(s,
                [copy_cycles EXCEPT ![var_index] =
                    Push(@, cycle_node(j, i + Size(s.public_inputs)))],
                i, j + 1)

\* compute_wire_copy_cycles: one (possibly empty) cycle per variable
compute_wire_copy_cycles(s) ==
    GateCycles(s,
               PublicInputCycles(s, [v \in Indices(s.variables) |-> EmptyVec], 0),
               0, 0)

\* Smallest power of two that holds the rows of the circuit (the key's circuit_size)
RECURSIVE NextPowerOfTwo(_, _)
NextPowerOfTwo(n, p) == IF p >= n THEN p ELSE NextPowerOfTwo(n, 2 * p)

NUM_RESERVED_GATES == 4

circuit_size(s) == NextPowerOfTwo(Size(s.w_l) + Size(s.public_inputs) + NUM_RESERVED_GATES, 1)

\* Mutant of IdentityMapping: every element points to its row in the first column
IdentityMappingFirstColumn(n) ==
    [i \in 0 .. (program_width - 1) |->
        [j \in 0 .. (n - 1) |-> permutation_subgroup_element(j, 0, FALSE, FALSE)]]

\* Every element points to itself
IdentityMapping(n) ==
    [i \in 0 .. (program_width - 1) |->
        [j \in 0 .. (n - 1) |-> permutation_subgroup_element(j, i, FALSE, FALSE)]]

\* Mutant of ThreadCycle: the last node is left pointing to itself
RECURSIVE ThreadCycleNoWrap(_, _, _)
ThreadCycleNoWrap(mapping, copy_cycle, node_idx) ==
    IF node_idx >= Size(copy_cycle) - 1
    THEN mapping
    ELSE LET current_cycle_node == copy_cycle[node_idx]
             next_cycle_node == copy_cycle[node_idx + 1]
         IN ThreadCycleNoWrap(
                [mapping EXCEPT
                    ![current_cycle_node.wire_index][current_cycle_node.gate_index] =
                        permutation_subgroup_element(next_cycle_node.gate_index,
                                                     next_cycle_node.wire_index,
                                                     FALSE, FALSE)],
                copy_cycle, node_idx + 1)

\* Thread one cycle: each node points to the next one, the last to the first
RECURSIVE ThreadCycle(_, _, _)
ThreadCycle(mapping, copy_cycle, node_idx) ==
    IF node_idx >= Size(copy_cycle)
    THEN mapping
    ELSE LET current_cycle_node == copy_cycle[node_idx]
             next_cycle_node_index ==
                 IF node_idx = Size(copy_cycle) - 1 THEN 0 ELSE node_idx + 1
             next_cycle_node == copy_cycle[next_cycle_node_index]
         IN ThreadCycle(
                [mapping EXCEPT
                    ![current_cycle_node.wire_index][current_cycle_node.gate_index] =
                        permutation_subgroup_element(next_cycle_node.gate_index,
                                                     next_cycle_node.wire_index,
                                                     FALSE, FALSE)],
                copy_cycle, node_idx + 1)

RECURSIVE ThreadCycles(_, _, _)
ThreadCycles(mapping, cycles, cycle_index) ==
    IF cycle_index >= Size(cycles)
    THEN mapping
    ELSE ThreadCycles(ThreadCycle(mapping, cycles[cycle_index], 0), cycles, cycle_index + 1)

\* The public-input cells of the left wire point to themselves and are marked
RECURSIVE MarkPublicInputs(_, _, _)
MarkPublicInputs(mapping, num_public_inputs, i) ==
    IF i >= num_public_inputs
    THEN mapping
    ELSE MarkPublicInputs(
            [mapping EXCEPT ![0][i] =
                [@ EXCEPT !.row_index = i, !.column_index = 0, !.is_public_input = TRUE]],
            num_public_inputs, i + 1)

\* compute_permutation_mapping<program_width, false>: mapping.sigmas
compute_permutation_mapping(s) ==
    MarkPublicInputs(
        ThreadCycles(IdentityMapping(circuit_size(s)), compute_wire_copy_cycles(s), 0),
        Size(s.public_inputs), 0)

(***************************************************************************)
(* UltraComposer / StandardPlonkComposer calls made of further calls.      *)
(***************************************************************************)
\* add_recursive_proof: the loop over proof_output_witness_indices (a sequence)
RECURSIVE AddProofOutputs(_, _, _)
AddProofOutputs(s, proof_output_witness_indices, k) ==
    IF k > Len(proof_output_witness_indices)
    THEN s
    ELSE LET t == set_public_input(s, proof_output_witness_indices[k])
         IN AddProofOutputs(
                [t EXCEPT !.recursive_proof_public_input_indices =
                    Push(@, Size(t.public_inputs) - 1)],
                proof_output_witness_indices, k + 1)

\* Mutant of add_recursive_proof: the failure ends the call
add_recursive_proof_abort(s, proof_output_witness_indices) ==
    IF s.contains_recursive_proof
    THEN failure(s, "added recursive proof when one already exists")
    ELSE AddProofOutputs([s EXCEPT !.contains_recursive_proof = TRUE],
                         proof_output_witness_indices, 1)

add_recursive_proof(s, proof_output_witness_indices) ==
    LET t == IF s.contains_recursive_proof
             THEN failure(s, "added recursive proof when one already exists")
             ELSE s
    IN AddProofOutputs([t EXCEPT !.contains_recursive_proof = TRUE],
                       proof_output_witness_indices, 1)

assert_equal_constant(s, a_idx, b, msg) ==
    LET t == IF s.variables[a_idx] # b /\ ~s.failed THEN failure(s, msg) ELSE s
        b_idx == put_constant_variable_index(t, b)
    IN assert_equal(put_constant_variable(t, b), a_idx, b_idx, msg)

\* Mutant of gate_sum: the output wire is left out of the sum
gate_sum_without_output(s, i) ==
    LET left == get_variable(s, s.w_l[i])
        right == get_variable(s, s.w_r[i])
    IN s.q_m[i] * left * right + s.q_1[i] * left + s.q_2[i] * right + s.q_c[i]

\* check_circuit: every gate row evaluates to zero
gate_sum(s, i) ==
    LET left == get_variable(s, s.w_l[i])
        right == get_variable(s, s.w_r[i])
        output == get_variable(s, s.w_o[i])
    IN s.q_m[i] * left * right + s.q_1[i] * left + s.q_2[i] * right
         + s.q_3[i] * output + s.q_c[i]

check_circuit(s) == \A i \in Indices(s.w_l) : gate_sum(s, i) = 0

\* Mutant of compute_proving_key: the failed flag is not looked at
compute_proving_key_unchecked(s) == "key"

\* compute_proving_key / compute_verification_key on a circuit
compute_proving_key(s) == IF s.failed THEN "failure" ELSE "key"

compute_verification_key(s) == IF s.failed THEN "failure" ELSE "key"

(***************************************************************************)
(* RAM transcripts.  RamRecord and RamTranscript are the structs of        *)
(* UltraComposer; of a RamRecord the model keeps index, timestamp,         *)
(* access_type and value_witness (the witness and gate indices of the      *)
(* record's own gate are not read by the ordering or the consistency       *)
(* check).  An index is passed by its value.                               *)
(***************************************************************************)
\* UINT32_MAX, which is no witness index.  TLC's integers are 32-bit signed, so
\* the sentinel is written as the signed reading of the same 32 bits.
UNINITIALIZED_MEMORY_RECORD == -1

\* Mutant of RamRecord_lt: records of one index are not compared by timestamp
RamRecord_lt_index_only(a, b) == a.index < b.index

\* RamRecord::operator<
RamRecord_lt(a, b) ==
    LET index_test == a.index < b.index
    IN index_test \/ (a.index = b.index /\ a.timestamp < b.timestamp)

\* std::sort with operator<, as an insertion sort.  The order of records that
\* are equal under operator< is left open by std::sort; no property below
\* depends on it.
RECURSIVE InsertRecord(_, _, _)
InsertRecord(sorted, record, k) ==
    IF k >= Size(sorted) \/ RamRecord_lt(record, sorted[k])
    THEN [i \in 0 .. Size(sorted) |->
             IF i < k THEN sorted[i] ELSE IF i = k THEN record ELSE sorted[i - 1]]
    ELSE InsertRecord(sorted, record, k + 1)

RECURSIVE SortRecordsFrom(_, _, _)
SortRecordsFrom(records, sorted, k) ==
    IF k >= Size(records)
    THEN sorted
    ELSE SortRecordsFrom(records, InsertRecord(sorted, records[k], 0), k + 1)

sort_records(records) == SortRecordsFrom(records, EmptyVec, 0)

\* RamTranscript of a new array: every cell uninitialised, access_count = 0
NewRamTranscript(array_size) ==
    [state |-> [i \in 0 .. (array_size - 1) |-> UNINITIALIZED_MEMORY_RECORD],
     records |-> EmptyVec,
     access_count |-> 0]

create_RAM_array(s, array_size) ==
    [s EXCEPT !.ram_arrays = Push(@, NewRamTranscript(array_size))]

\* Mutant of AppendRamRecord: access_count is not advanced
AppendRamRecordStale(ram_array, index, access_type, value_witness) ==
    [ram_array EXCEPT
        !.records = Push(@, [index |-> index,
                             timestamp |-> ram_array.access_count,
                             access_type |-> access_type,
                             value_witness |-> value_witness])]

\* A new record stamped with access_count, which then advances
AppendRamRecord(ram_array, index, access_type, value_witness) ==
    [ram_array EXCEPT
        !.records = Push(@, [index |-> index,
                             timestamp |-> ram_array.access_count,
                             access_type |-> access_type,
                             value_witness |-> value_witness]),
        !.access_count = @ + 1]

\* init_RAM_element(ram_id, index_value, value_witness)
init_RAM_element(s, ram_id, index_value, value_witness) ==
    LET ram_array == AppendRamRecord(s.ram_arrays[ram_id], index_value, "WRITE", value_witness)
    IN [s EXCEPT !.ram_arrays[ram_id] =
           [ram_array EXCEPT !.state[index_value] = value_witness]]

\* write_RAM_array(ram_id, index, value_witness)
write_RAM_array(s, ram_id, index, value_witness) ==
    LET ram_array == AppendRamRecord(s.ram_arrays[ram_id], index, "WRITE", value_witness)
    IN [s EXCEPT !.ram_arrays[ram_id] =
           [ram_array EXCEPT !.state[index] = value_witness]]

\* read_RAM_array(ram_id, index): a new witness holding the value of the cell
read_RAM_array_index(s, ram_id, index) == Size(s.variables)

read_RAM_array(s, ram_id, index) ==
    LET value_witness == read_RAM_array_index(s, ram_id, index)
        t == add_variable(s, get_variable(s, s.ram_arrays[ram_id].state[index]))
    IN [t EXCEPT !.ram_arrays[ram_id] =
           AppendRamRecord(@, index, "READ", value_witness)]

\* process_RAM_arrays: the records of every array, sorted
process_RAM_arrays(s) ==
    [ram_id \in Indices(s.ram_arrays) |-> sort_records(s.ram_arrays[ram_id].records)]

\* Mutant of RamPairConsistent: the value of a read is not chained
RamPairTimestampOnly(s, previous, current) ==
    previous.index = current.index => current.timestamp > previous.timestamp

\* The check of one adjacent pair of sorted records: within one index the
\* timestamp grows and a read carries the value of the record before it
RamPairConsistent(s, previous, current) ==
    previous.index = current.index =>
        /\ current.timestamp > previous.timestamp
        /\ current.access_type = "READ" =>
              get_variable(s, current.value_witness) = get_variable(s, previous.value_witness)

\* The consistency gates of one sorted array hold on the witness: the first
\* record of every index is a write, and every adjacent pair is consistent
RamConsistent(s, sorted) ==
    /\ \A k \in Indices(sorted) :
          (k = 0 \/ sorted[k - 1].index # sorted[k].index) => sorted[k].access_type = "WRITE"
    /\ \A k \in Indices(sorted) : k > 0 => RamPairConsistent(s, sorted[k - 1], sorted[k])

(***************************************************************************)
(* ROM transcripts.  A cell of RomTranscript::state holds two witness      *)
(* indices; set_ROM_element fills the first and leaves zero_idx in the     *)
(* second.  An index is passed by its value.                               *)
(***************************************************************************)
zero_idx == 0

UninitializedAccessMessage == "uninitialized access"

\* RomTranscript of a new array: every cell uninitialised
NewRomTranscript(array_size) ==
    [state |-> [i \in 0 .. (array_size - 1) |->
                   VectorOf(<<UNINITIALIZED_MEMORY_RECORD, UNINITIALIZED_MEMORY_RECORD>>)],
     records |-> EmptyVec]

create_ROM_array(s, array_size) ==
    [s EXCEPT !.rom_arrays = Push(@, NewRomTranscript(array_size))]

RomCellIsSet(s, rom_id, index) ==
    s.rom_arrays[rom_id].state[index][0] # UNINITIALIZED_MEMORY_RECORD

\* Mutant of set_ROM_element_is_fatal: a cell may be set again
set_ROM_element_never_fatal(s, rom_id, index_value) == FALSE

\* set_ROM_element on a cell that is set already is a fatal usage error
set_ROM_element_is_fatal(s, rom_id, index_value) == RomCellIsSet(s, rom_id, index_value)

\* set_ROM_element(rom_id, index_value, value_witness)
set_ROM_element(s, rom_id, index_value, value_witness) ==
    [s EXCEPT !.rom_arrays[rom_id].state[index_value] = VectorOf(<<value_witness, zero_idx>>)]

\* Mutant of read_ROM_array_value: the second column of the cell is read
read_ROM_array_value_column2(s, rom_id, index) ==
    get_variable(s, s.rom_arrays[rom_id].state[index][1])

\* The value read_ROM_array gives the witness it returns
read_ROM_array_value(s, rom_id, index) ==
    get_variable(s, s.rom_arrays[rom_id].state[index][0])

\* read_ROM_array(rom_id, index): what it returns, <<>> when the cell is not set
read_ROM_array_result(s, rom_id, index) ==
    IF RomCellIsSet(s, rom_id, index) THEN <<Size(s.variables)>> ELSE <<>>

\* read_ROM_array(rom_id, index): the state after the call.  A set cell is
\* copied into a new witness and the read is recorded; a cell that is not
\* set raises the uninitialized-access condition
read_ROM_array(s, rom_id, index) ==
    IF RomCellIsSet(s, rom_id, index)
    THEN LET t == add_variable(s, read_ROM_array_value(s, rom_id, index))
         IN [t EXCEPT !.rom_arrays[rom_id].records =
                Push(@, [index |-> index,
                         value_column1_witness |-> Size(s.variables),
                         value_column2_witness |-> zero_idx])]
    ELSE failure(s, UninitializedAccessMessage)

(***************************************************************************)
(* Range constraints of UltraComposer.  range_lists maps a target range to *)
(* the variables registered for it.                                        *)
(***************************************************************************)
DEFAULT_PLOOKUP_RANGE_BITNUM == 14

RECURSIVE Pow2(_)
Pow2(n) == IF n = 0 THEN 1 ELSE 2 * Pow2(n - 1)

\* create_new_range_constraint(variable_index, target_range): the variable
\* joins the list of the target range
create_new_range_constraint(s, variable_index, target_range) ==
    [s EXCEPT !.range_lists =
        IF target_range \in DOMAIN s.range_lists
        THEN [@ EXCEPT ![target_range] = Push(@, variable_index)]
        ELSE (target_range :> VectorOf(<<variable_index>>)) @@ @]

\* The limbs of decompose_into_default_range: the lowest target_range_bitnum
\* bits of the value become a limb with its own range constraint, the bits
\* above become a new variable that is decomposed in turn, and a gate states
\* limb + 2^target_range_bitnum * rest = variable; the last limb takes the
\* bits left over
RECURSIVE DecomposeLimbs(_, _, _, _)
DecomposeLimbs(s, variable_index, bits_left, target_range_bitnum) ==
    LET value == get_variable(s, variable_index)
        limb_idx == Size(s.variables)
        limb_bits == IF bits_left < target_range_bitnum THEN bits_left ELSE target_range_bitnum
        t == create_new_range_constraint(
                add_variable(s, value % Pow2(target_range_bitnum)), limb_idx,
                Pow2(limb_bits) - 1)
        rest_idx == Size(t.variables)
        u == add_variable(t, value \div Pow2(target_range_bitnum))
    IN IF bits_left <= target_range_bitnum
       THEN create_add_gate(t, limb_idx, limb_idx, variable_index, 1, 0, -1, 0)
       ELSE DecomposeLimbs(
                create_add_gate(u, limb_idx, rest_idx, variable_index,
                                1, Pow2(target_range_bitnum), -1, 0),
                rest_idx, bits_left - target_range_bitnum, target_range_bitnum)

\* decompose_into_default_range(variable_index, num_bits, target_range_bitnum)
decompose_into_default_range(s, variable_index, num_bits, target_range_bitnum) ==
    DecomposeLimbs(s, variable_index, num_bits, target_range_bitnum)

\* Mutant of create_range_constraint: the threshold itself is decomposed
create_range_constraint_below_threshold(s, variable_index, num_bits) ==
    IF num_bits < DEFAULT_PLOOKUP_RANGE_BITNUM
    THEN create_new_range_constraint(
            create_poly_gate(s, variable_index, variable_index, variable_index, 0, 1, -1, 0, 0),
            variable_index, Pow2(num_bits))
    ELSE decompose_into_default_range(s, variable_index, num_bits,
                                      DEFAULT_PLOOKUP_RANGE_BITNUM)

\* create_range_constraint(variable_index, num_bits, msg)
create_range_constraint(s, variable_index, num_bits) ==
    IF num_bits <= DEFAULT_PLOOKUP_RANGE_BITNUM
    THEN create_new_range_constraint(
            create_poly_gate(s, variable_index, variable_index, variable_index, 0, 1, -1, 0, 0),
            variable_index, Pow2(num_bits))
    ELSE decompose_into_default_range(s, variable_index, num_bits,
                                      DEFAULT_PLOOKUP_RANGE_BITNUM)

(***************************************************************************)
(* work_queue of the Honk prover.  A work item holds a span over the       *)
(* scalars of a polynomial, named here by the polynomial, and a label; the *)
(* transcript is the list of (label, element) messages sent so far.        *)
(***************************************************************************)
\* commitment_key.commit(mul_scalars): the commitment scheme is an outside
\* service, a commitment is named by what it commits to
commit(mul_scalars) == <<"commitment", mul_scalars>>

\* transcript.send_to_verifier(label, element)
send_to_verifier(messages, label, element) ==
    Push(messages, [label |-> label, element |-> element])

\* Mutant of add_to_queue: the item is put in front of the queue
add_to_queue_front(queue, item) ==
    [i \in 0 .. Size(queue) |-> IF i = 0 THEN item ELSE queue[i - 1]]

\* add_to_queue(item)
add_to_queue(queue, item) == Push(queue, item)

\* add_commitment(polynomial, label)
add_commitment(queue, polynomial, label) ==
    add_to_queue(queue, [work_type |-> "SCALAR_MULTIPLICATION",
                         mul_scalars |-> polynomial,
                         label |-> label])

\* The loop of process_queue over the items k, k + 1, ...
RECURSIVE ProcessItems(_, _, _)
ProcessItems(queue, messages, k) ==
    IF k >= Size(queue)
    THEN messages
    ELSE ProcessItems(
            queue,
            IF queue[k].work_type = "SCALAR_MULTIPLICATION"
            THEN send_to_verifier(messages, queue[k].label, commit(queue[k].mul_scalars))
            ELSE messages,
            k + 1)

\* Mutant of process_queue: the queue is not emptied
process_queue_keeping_items(queue, messages) ==
    [work_item_queue |-> queue, transcript |-> ProcessItems(queue, messages, 0)]

\* process_queue(): the queue and the transcript after the call
process_queue(queue, messages) ==
    [work_item_queue |-> EmptyVec, transcript |-> ProcessItems(queue, messages, 0)]

\* The scalar multiplications of the queue, in order
ScalarMultiplications(queue) ==
    {k \in Indices(queue) : queue[k].work_type = "SCALAR_MULTIPLICATION"}

\* put_scalar_multiplication_data(result, work_item_number): the label of
\* that scalar multiplication is sent with the result; nothing is sent when
\* there are fewer scalar multiplications
put_scalar_multiplication_data(queue, messages, result, work_item_number) ==
    LET found == {k \in ScalarMultiplications(queue) :
                     Cardinality({j \in ScalarMultiplications(queue) : j < k})
                         = work_item_number}
    IN IF found = {}
       THEN messages
       ELSE send_to_verifier(messages, queue[CHOOSE k \in found : TRUE].label, result)

(***************************************************************************)
(* The prime field of field_declarations.hpp, scaled down.  An element is  *)
(* its data[4]: four limbs, data[0] the least significant, holding the     *)
(* Montgomery form value * R mod modulus with R one past the largest       *)
(* 4-limb number.  The source has 64-bit limbs and a 254-bit modulus; the  *)
(* model keeps the shape (4 limbs, a modulus two bits short of the 4-limb  *)
(* width, so that 2 * modulus and the coarse form [0, 2 * modulus) fit)    *)
(* with limbs of LimbBits bits, every limb operation taken modulo the limb *)
(* width.  The bodies of the arithmetic (field_impl.hpp) are not part of   *)
(* the sources at hand; Montgomery multiplication, the conversions, pow,   *)
(* invert and batch_invert follow the contract of the field.               *)
(***************************************************************************)
\* width of a limb (uint64_t in the source)
LimbBits == 2
\* a byte of the serialized form; a limb is BytesPerLimb bytes
ByteBits == 1
BytesPerLimb == LimbBits \div ByteBits
ByteRadix == Pow2(ByteBits)
LimbRadix == Pow2(LimbBits)
\* R = 2^256 in the source: one past the largest value of data[4]
MontgomeryR == LimbRadix * LimbRadix * LimbRadix * LimbRadix

\* uint256_t{ d0, d1, d2, d3 } and back
uint256(data) ==
    data[0] + LimbRadix * (data[1] + LimbRadix * (data[2] + LimbRadix * data[3]))
field(n) == [i \in 0 .. 3 |-> (n \div Pow2(LimbBits * i)) % LimbRadix]

\* Params::modulus_0 .. modulus_3: a prime below R / 4, limbs 3, 2, 3, 0
modulus_value == 59
modulus == field(modulus_value)

\* field::modulus_minus_two with the limbs as Params::modulus_0 - 1
modulus_minus_one ==
    [modulus EXCEPT ![0] = (modulus[0] - 1) % LimbRadix]
\* field::modulus_minus_two: only the lowest limb is touched
modulus_minus_two ==
    [modulus EXCEPT ![0] = (modulus[0] - 2) % LimbRadix]

\* -modulus^-1 mod R, the constant of the Montgomery reduction
r_inv == CHOOSE n \in 0 .. (MontgomeryR - 1) : (n * modulus_value) % MontgomeryR = MontgomeryR - 1
\* R^2 mod modulus, the Montgomery form of R
r_squared == field((MontgomeryR * MontgomeryR) % modulus_value)

\* subtract the modulus once if the value is not below it
reduce_once(a) ==
    IF uint256(a) >= modulus_value THEN field(uint256(a) - modulus_value) ELSE a

\* operator*: the full product, then the Montgomery reduction; for operands
\* in [0, 2 * modulus) the result is again in [0, 2 * modulus)
montgomery_mul(a, b) ==
    LET T == uint256(a) * uint256(b)
        m == ((T % MontgomeryR) * r_inv) % MontgomeryR
    IN field((T + m * modulus_value) \div MontgomeryR)

\* out of Montgomery form: multiply by the raw 1 and reduce fully
from_montgomery_form(a) == reduce_once(montgomery_mul(a, field(1)))

\* into Montgomery form: any 4-limb value is first brought below
\* 2 * modulus, then multiplied by R^2
to_montgomery_form(a) ==
    reduce_once(montgomery_mul(reduce_once(reduce_once(reduce_once(a))), r_squared))

\* field::zero() and field::one()
zero == field(0)
one == to_montgomery_form(field(1))

\* operator== and is_zero compare the fully reduced representatives
field_eq(a, b) == reduce_once(a) = reduce_once(b)
is_zero(a) == reduce_once(a) = zero

\* pow: square and multiply over the bits of the exponent
RECURSIVE pow_uint(_, _)
pow_uint(a, exponent) ==
    IF exponent = 0 THEN one
    ELSE LET half == pow_uint(a, exponent \div 2)
             squared == montgomery_mul(half, half)
         IN IF exponent % 2 = 1 THEN montgomery_mul(squared, a) ELSE squared
pow(a, exponent) == pow_uint(a, uint256(exponent))

\* invert: Fermat's little theorem; the inverse of zero comes out as zero
invert(a) == pow(a, modulus_minus_two)

\* serialize::write of a limb: its bytes, most significant first
write_uint64(buf, limb) ==
    buf \o [k \in 1 .. BytesPerLimb |->
               (limb \div Pow2(ByteBits * (BytesPerLimb - k))) % ByteRadix]
\* serialize::read of a limb from the front of the buffer
RECURSIVE read_bytes(_, _, _)
read_bytes(it, count, acc) ==
    IF count = 0 THEN acc ELSE read_bytes(Tail(it), count - 1, acc * ByteRadix + Head(it))
read_uint64(it) == read_bytes(it, BytesPerLimb, 0)
Advance(it) == SubSeq(it, BytesPerLimb + 1, Len(it))

\* write(buf, value): out of Montgomery form, then data[3], data[2],
\* data[1], data[0]
write(buf, value) ==
    LET input == from_montgomery_form(value)
    IN write_uint64(write_uint64(write_uint64(write_uint64(buf,
           input[3]), input[2]), input[1]), input[0])

\* read with the limbs taken least significant first
read_least_significant_first(it) ==
    LET it1 == Advance(it)
        it2 == Advance(it1)
        it3 == Advance(it2)
        result == [i \in 0 .. 3 |->
                      CASE i = 0 -> read_uint64(it)  [] i = 1 -> read_uint64(it1)
                        [] i = 2 -> read_uint64(it2) [] i = 3 -> read_uint64(it3)]
    IN to_montgomery_form(result)
\* read(it, value): data[3], data[2], data[1], data[0] from the buffer,
\* then into Montgomery form
read(it) ==
    LET it1 == Advance(it)
        it2 == Advance(it1)
        it3 == Advance(it2)
        result == [i \in 0 .. 3 |->
                      CASE i = 3 -> read_uint64(it)  [] i = 2 -> read_uint64(it1)
                        [] i = 1 -> read_uint64(it2) [] i = 0 -> read_uint64(it3)]
    IN to_montgomery_form(result)

\* batch_invert: Montgomery's trick.  temporaries[i] is the product of the
\* non-zero elements before i; zero elements are left out of the product
\* and left as they are, so that each element becomes its invert().
RECURSIVE RunningProduct(_, _)
RunningProduct(coeffs, i) ==
    IF i = 0 THEN one
    ELSE IF is_zero(coeffs[i - 1]) THEN RunningProduct(coeffs, i - 1)
         ELSE montgomery_mul(RunningProduct(coeffs, i - 1), coeffs[i - 1])

\* from the last element to the first: coeffs[i] = accumulator *
\* temporaries[i], accumulator *= the old coeffs[i]
RECURSIVE BackSubstitute(_, _, _, _)
BackSubstitute(coeffs, original, i, accumulator) ==
    IF i < 0 THEN coeffs
    ELSE IF is_zero(original[i])
         THEN BackSubstitute(coeffs, original, i - 1, accumulator)
         ELSE BackSubstitute(
                  [coeffs EXCEPT ![i] = montgomery_mul(accumulator, RunningProduct(original, i))],
                  original, i - 1, montgomery_mul(accumulator, original[i]))

\* every element from the one inverse, the accumulator never multiplied back
batch_invert_stale_accumulator(coeffs) ==
    LET accumulator == invert(RunningProduct(coeffs, Size(coeffs)))
    IN [i \in Indices(coeffs) |->
           IF is_zero(coeffs[i]) THEN coeffs[i]
           ELSE montgomery_mul(accumulator, RunningProduct(coeffs, i))]
\* batch_invert(coeffs): one inversion of the product of the elements
batch_invert(coeffs) ==
    LET n == Size(coeffs)
        accumulator == invert(RunningProduct(coeffs, n))
    IN BackSubstitute(coeffs, coeffs, n - 1, accumulator)

(***************************************************************************)
(* stdlib::keccak (keccak.cpp), scaled down.  A hash lane is a word of     *)
(* LaneBits bits (64 in the source) held as a base-11 number with one      *)
(* digit per bit; a byte has KeccakByteBits bits (8 in the source).  The   *)
(* number of lanes, of lanes per block, of rounds and of output lanes are  *)
(* those of the source; the rotations and round constants of keccak.hpp    *)
(* are taken modulo the lane width, as Keccak defines them for narrower    *)
(* lanes.  A field element holds its value exactly: every number below is  *)
(* far under the modulus.  The lookup tables (plookup::keccak_tables) and  *)
(* hash_native are outside the sources at hand; the tables are modelled    *)
(* by the map on digits that the comments and tests of keccak give for     *)
(* them, hash_native as Keccak with pad10*1 padding.                       *)
(***************************************************************************)
BASE == 11
\* bits of a lane (64 in the source)
LaneBits == 4
\* bits of a byte (8 in the source)
KeccakByteBits == 2
\* bytes of a lane
WORD_SIZE == LaneBits \div KeccakByteBits
\* lanes absorbed per block, and the block in bytes
LIMBS_PER_BLOCK == 17
BLOCK_SIZE == LIMBS_PER_BLOCK * WORD_SIZE
\* lanes of the digest
OUTPUT_LIMBS == 4
NUM_ROUNDS == 24
\* plookup::keccak_tables::Rho<>::MAXIMUM_MULTITABLE_BITS (8 in the source)
MAXIMUM_MULTITABLE_BITS == 2

\* keccak::ROTATIONS, lane y * 5 + x
ROTATIONS_64 ==
    VectorOf(<<0, 1, 62, 28, 27, 36, 44, 6, 55, 20, 3, 10, 43,
               25, 39, 41, 45, 15, 21, 8, 18, 2, 61, 56, 14>>)
ROTATIONS == [i \in 0 .. 24 |-> ROTATIONS_64[i] % LaneBits]

\* the low bits of keccak::RC, one per round
RC_16 ==
    VectorOf(<<1, 2, 10, 0, 11, 1, 1, 9, 10, 8, 9, 10,
               11, 11, 9, 3, 2, 0, 10, 10, 1, 0, 1, 8>>)
RC == [i \in 0 .. (NUM_ROUNDS - 1) |-> RC_16[i] % Pow2(LaneBits)]

RECURSIVE BasePow(_)
BasePow(n) == IF n = 0 THEN 1 ELSE BASE * BasePow(n - 1)

\* convert_to_sparse: bit i of the word becomes digit i
RECURSIVE convert_to_sparse(_)
convert_to_sparse(binary) ==
    IF binary = 0 THEN 0
    ELSE (binary % 2) + BASE * convert_to_sparse(binary \div 2)

\* KECCAK_FORMAT_OUTPUT: digit i (0 or 1) becomes bit i
RECURSIVE convert_from_sparse(_)
convert_from_sparse(sparse) ==
    IF sparse = 0 THEN 0
    ELSE (sparse % BASE) + 2 * convert_from_sparse(sparse \div BASE)

\* normalize_sparse: every digit b becomes b & 1
RECURSIVE normalize_sparse(_)
normalize_sparse(sparse) ==
    IF sparse = 0 THEN 0
    ELSE ((sparse % BASE) % 2) + BASE * normalize_sparse(sparse \div BASE)

\* SPARSE_RC[round]
SPARSE_RC == [i \in 0 .. (NUM_ROUNDS - 1) |-> convert_to_sparse(RC[i])]

\* plookup::ReadData with no row
EmptyLookup == [C1 |-> EmptyVec, C2 |-> EmptyVec, C3 |-> EmptyVec]

\* number of tables for a slice of the given number of bits
NumTables(bits) ==
    bits \div MAXIMUM_MULTITABLE_BITS + (IF bits % MAXIMUM_MULTITABLE_BITS > 0 THEN 1 ELSE 0)

\* compute_lookup_witnesses_for_limb<limb_bits, num_lookups>(normalized),
\* from lookup i on: one row per table, the input and the normalized value
\* divided by 11^bit_slice after each row
RECURSIVE compute_lookup_witnesses_for_limb(_, _, _, _, _, _)
compute_lookup_witnesses_for_limb(lookup, input, normalized, limb_bits, num_lookups, i) ==
    IF i >= num_lookups THEN [lookup |-> lookup, input |-> input]
    ELSE LET num_bits_processed == i * MAXIMUM_MULTITABLE_BITS
             bit_slice == IF num_bits_processed + MAXIMUM_MULTITABLE_BITS > limb_bits
                          THEN limb_bits % MAXIMUM_MULTITABLE_BITS
                          ELSE MAXIMUM_MULTITABLE_BITS
             divisor == BasePow(bit_slice)
             msb_divisor == divisor \div BASE
             normalized_slice == normalized % divisor
             normalized_msb == normalized_slice \div msb_divisor
         IN compute_lookup_witnesses_for_limb(
                [C1 |-> Push(lookup.C1, input),
                 C2 |-> Push(lookup.C2, normalized),
                 C3 |-> Push(lookup.C3, normalized_msb)],
                input \div divisor, normalized \div divisor,
                limb_bits, num_lookups, i + 1)

\* normalize_and_rotate with the most significant bit taken from the
\* first row of the lookup
normalize_and_rotate_msb_of_first_row(lane_index, limb) ==
    LET left_bits == ROTATIONS[lane_index]
        right_bits == LaneBits - ROTATIONS[lane_index]
        num_left_tables == NumTables(left_bits)
        num_right_tables == NumTables(right_bits)
        slice_divisor == BasePow(right_bits)
        left == limb \div slice_divisor
        right == limb % slice_divisor
        right_rows == compute_lookup_witnesses_for_limb(
                          EmptyLookup, limb, normalize_sparse(right), right_bits, num_right_tables, 0)
        left_rows == compute_lookup_witnesses_for_limb(
                         right_rows.lookup, right_rows.input, normalize_sparse(left),
                         left_bits, num_left_tables, 0)
        accumulator_witnesses == left_rows.lookup
        right_output == accumulator_witnesses.C2[0]
    IN [msb |-> accumulator_witnesses.C3[0],
        limb |-> IF num_left_tables = 0 THEN right_output
                 ELSE accumulator_witnesses.C2[num_right_tables]
                          + right_output * BasePow(ROTATIONS[lane_index])]
\* normalize_and_rotate<lane_index>(limb, msb): the rows of the right slice,
\* then those of the left slice; the output is the normalized left slice
\* with the normalized right slice shifted above it, msb is column C3 of
\* the last row
normalize_and_rotate(lane_index, limb) ==
    LET left_bits == ROTATIONS[lane_index]
        right_bits == LaneBits - ROTATIONS[lane_index]
        num_left_tables == NumTables(left_bits)
        num_right_tables == NumTables(right_bits)
        slice_divisor == BasePow(right_bits)
        left == limb \div slice_divisor
        right == limb % slice_divisor
        right_rows == compute_lookup_witnesses_for_limb(
                          EmptyLookup, limb, normalize_sparse(right), right_bits, num_right_tables, 0)
        left_rows == compute_lookup_witnesses_for_limb(
                         right_rows.lookup, right_rows.input, normalize_sparse(left),
                         left_bits, num_left_tables, 0)
        accumulator_witnesses == left_rows.lookup
        right_output == accumulator_witnesses.C2[0]
    IN [msb |-> accumulator_witnesses.C3[num_left_tables + num_right_tables - 1],
        limb |-> IF num_left_tables = 0 THEN right_output
                 ELSE accumulator_witnesses.C2[num_right_tables]
                          + right_output * BasePow(ROTATIONS[lane_index])]

\* keccak_state before the first block: 25 lanes, their most significant
\* bits and their twisted forms
Lanes == 0 .. 24
NewKeccakState ==
    [state |-> [i \in Lanes |-> 0],
     state_msb |-> [i \in Lanes |-> 0],
     twisted_state |-> [i \in Lanes |-> 0]]

\* compute_twisted_state: the lane one digit up, its top bit as digit 0
compute_twisted_state(internal) ==
    [internal EXCEPT !.twisted_state =
        [i \in Lanes |-> internal.state[i] * 11 + internal.state_msb[i]]]

\* KECCAK_THETA_OUTPUT read on mid: every digit becomes its parity
theta_D(internal, i) ==
    LET C == [k \in 0 .. 4 |->
                 internal.twisted_state[k] + internal.twisted_state[5 + k]
                     + internal.twisted_state[10 + k] + internal.twisted_state[15 + k]
                     + internal.twisted_state[20 + k]]
        D_native == C[(i + 4) % 5] + C[(i + 1) % 5] * BASE
        D_quotient == D_native \div BASE
        hi_native == D_quotient \div BasePow(LaneBits)
        mid_native == D_quotient - hi_native * BasePow(LaneBits)
    IN normalize_sparse(mid_native)

\* theta: state[j * 5 + i] = state[j * 5 + i] + D[i]
theta(internal) ==
    LET D == [i \in 0 .. 4 |-> theta_D(internal, i)]
    IN [internal EXCEPT !.state = [k \in Lanes |-> internal.state[k] + D[k % 5]]]

\* rho: every lane normalized and rotated, its msb stored
rho(internal) ==
    LET rotated == [i \in Lanes |-> normalize_and_rotate(i, internal.state[i])]
    IN [internal EXCEPT !.state = [i \in Lanes |-> rotated[i].limb],
                        !.state_msb = [i \in Lanes |-> rotated[i].msb]]

\* Mutant of pi: the lane is written to state[u * 5 + v]
pi_swapped_uv(internal) ==
    LET B == internal.state
    IN [internal EXCEPT !.state =
           [k \in Lanes |->
               LET src == CHOOSE s \in Lanes :
                              ((s \div 5) % 5) * 5 + ((2 * (s % 5) + 3 * (s \div 5)) % 5) = k
               IN B[src]]]

\* pi: lane (x, y) goes to (u, v) = (y, 2x + 3y)
pi(internal) ==
    LET B == internal.state
    IN [internal EXCEPT !.state =
           [k \in Lanes |->
               LET src == CHOOSE s \in Lanes :
                              ((2 * (s % 5) + 3 * (s \div 5)) % 5) * 5 + ((s \div 5) % 5) = k
               IN B[src]]]

\* chi_normalization_table of the KECCAK_CHI_OUTPUT table
chi_normalization_table == VectorOf(<<0, 0, 1, 1, 0>>)
\* the sum of 11^i over the digits of a lane
RECURSIVE OnesUpTo(_)
OnesUpTo(n) == IF n = 0 THEN 0 ELSE 1 + BASE * OnesUpTo(n - 1)
CHI_OFFSET == OnesUpTo(LaneBits)

\* KECCAK_CHI_OUTPUT applied digit by digit
RECURSIVE chi_normalize(_, _)
chi_normalize(sparse, digits) ==
    IF digits = 0 THEN 0
    ELSE chi_normalization_table[sparse % BASE] + BASE * chi_normalize(sparse \div BASE, digits - 1)

\* get_lookup_accumulators(KECCAK_CHI_OUTPUT, limb): column C2 starts with
\* the normalized limb, column C3 ends with its most significant bit
chi_lookup(limb) ==
    LET normalized == chi_normalize(limb, LaneBits)
    IN [C2_first |-> normalized, C3_last |-> normalized \div BasePow(LaneBits - 1)]

\* the lane before the lookup: 2A + CHI_OFFSET - B + C
chi_lane_output(state, x, y) ==
    LET A == state[y * 5 + x]
        B == state[y * 5 + ((x + 1) % 5)]
        C == state[y * 5 + ((x + 2) % 5)]
    IN (A + A + CHI_OFFSET) - B + C

\* chi with the lanes B and C exchanged
chi_swapped(internal) ==
    LET accumulators == [k \in Lanes |->
            chi_lookup((2 * internal.state[k] + CHI_OFFSET)
                           - internal.state[(k \div 5) * 5 + (((k % 5) + 2) % 5)]
                           + internal.state[(k \div 5) * 5 + (((k % 5) + 1) % 5)])]
    IN [internal EXCEPT !.state = [k \in Lanes |-> accumulators[k].C2_first],
                        !.state_msb = [k \in Lanes |-> accumulators[k].C3_last]]
\* chi: every lane of a row from the three lanes at x, x + 1, x + 2
chi(internal) ==
    LET accumulators == [k \in Lanes |->
            chi_lookup(chi_lane_output(internal.state, k % 5, k \div 5))]
    IN [internal EXCEPT !.state = [k \in Lanes |-> accumulators[k].C2_first],
                        !.state_msb = [k \in Lanes |-> accumulators[k].C3_last]]

\* iota: the round constant added to lane 0, which is normalized again
iota(internal, round) ==
    LET xor_result == internal.state[0] + SPARSE_RC[round]
        normalized == normalize_and_rotate(0, xor_result)
        next == [internal EXCEPT !.state[0] = normalized.limb,
                                 !.state_msb[0] = normalized.msb]
    IN IF round # NUM_ROUNDS - 1 THEN compute_twisted_state(next) ELSE next

\* sponge_absorb, block i: the first block is loaded into the first
\* LIMBS_PER_BLOCK lanes over a zero state; a later block is added to them
\* and each sum normalized; then the twisted state for the first round
sponge_absorb_block(internal, input_buffer, msb_buffer, i) ==
    LET loaded ==
            IF i = 0
            THEN [internal EXCEPT
                     !.state = [j \in Lanes |->
                                   IF j < LIMBS_PER_BLOCK THEN input_buffer[j] ELSE 0],
                     !.state_msb = [j \in Lanes |->
                                       IF j < LIMBS_PER_BLOCK THEN msb_buffer[j] ELSE 0]]
            ELSE LET absorbed == [j \in Lanes |->
                         IF j < LIMBS_PER_BLOCK
                         THEN normalize_and_rotate(0,
                                  internal.state[j] + input_buffer[i * LIMBS_PER_BLOCK + j])
                         ELSE [limb |-> internal.state[j], msb |-> internal.state_msb[j]]]
                 IN [internal EXCEPT !.state = [j \in Lanes |-> absorbed[j].limb],
                                     !.state_msb = [j \in Lanes |-> absorbed[j].msb]]
    IN compute_twisted_state(loaded)

\* the bytes of a word, most significant first (byte_array_ct(field, n))
ByteRadixK == Pow2(KeccakByteBits)
WordBytes(word) ==
    [j \in 0 .. (WORD_SIZE - 1) |-> (word \div Pow2(KeccakByteBits * (WORD_SIZE - 1 - j))) % ByteRadixK]
\* the word of WORD_SIZE bytes from position i, most significant first
\* (field_ct(byte_array.slice(i, WORD_SIZE)))
RECURSIVE SliceWord(_, _, _)
SliceWord(bytes, i, count) ==
    IF count = 0 THEN 0
    ELSE SliceWord(bytes, i, count - 1) * ByteRadixK + bytes[i + count - 1]

\* sponge_squeeze: the first lanes in binary, each written least
\* significant byte first
sponge_squeeze(internal) ==
    [k \in 0 .. (OUTPUT_LIMBS * WORD_SIZE - 1) |->
        LET output_limb == convert_from_sparse(internal.state[k \div WORD_SIZE])
            limb_bytes == WordBytes(output_limb)
        IN limb_bytes[WORD_SIZE - 1 - (k % WORD_SIZE)]]

\* hash, the padding: the input, zero bytes up to the next block boundary,
\* then set_byte(input_size, 0x1) and set_byte(size - 1, 0x80), the second
\* write replacing the first when both fall on one byte
block_bytes_of(input) ==
    LET input_size == Size(input)
        blocks == input_size \div BLOCK_SIZE
        blocks_length == BLOCK_SIZE * (blocks + 1)
    IN [k \in 0 .. (blocks_length - 1) |->
           IF k = blocks_length - 1 THEN Pow2(KeccakByteBits - 1)
           ELSE IF k = input_size THEN 1
           ELSE IF k < input_size THEN input[k] ELSE 0]

\* hash(input) on witnesses, up to the call of sponge_absorb: pad, swap the
\* bytes of every lane, convert the lanes to base 11 (KECCAK_FORMAT_INPUT:
\* column C2 the sparse form, column C3 the most significant bit)
hash_buffers(input) ==
    LET padded == block_bytes_of(input)
        byte_size == Size(padded)
        block_bytes == [k \in Indices(padded) |->
                           padded[(k \div WORD_SIZE) * WORD_SIZE + (WORD_SIZE - 1 - (k % WORD_SIZE))]]
        num_limbs == byte_size \div WORD_SIZE
        sliced == [i \in 0 .. (num_limbs - 1) |-> SliceWord(block_bytes, i * WORD_SIZE, WORD_SIZE)]
    IN [converted_buffer |-> [i \in 0 .. (num_limbs - 1) |-> convert_to_sparse(sliced[i])],
        msb_buffer |-> [i \in 0 .. (num_limbs - 1) |-> sliced[i] \div Pow2(LaneBits - 1)]]

(***************************************************************************)
(* hash_native: Keccak on words of LaneBits bits.  The state is the tuple  *)
(* of the 25 lanes, lane i at position i + 1.                              *)
(***************************************************************************)
RECURSIVE BitXor(_, _)
BitXor(a, b) ==
    IF a = 0 THEN b
    ELSE IF b = 0 THEN a
    ELSE ((a + b) % 2) + 2 * BitXor(a \div 2, b \div 2)
\* (NOT b) AND c
RECURSIVE BitAndNot(_, _)
BitAndNot(b, c) ==
    IF c = 0 THEN 0
    ELSE ((1 - (b % 2)) * (c % 2)) + 2 * BitAndNot(b \div 2, c \div 2)
RotateLeft(a, r) == ((a * Pow2(r)) % Pow2(LaneBits)) + (a \div Pow2(LaneBits - r))

\* the tuple of the values of f on 0 .. n - 1, the first value first
RECURSIVE LaneTupleFrom(_, _, _)
LaneTupleFrom(f, k, n) == IF k >= n THEN <<>> ELSE <<f[k]>> \o LaneTupleFrom(f, k + 1, n)
LaneTuple(f, n) == LaneTupleFrom(f, 0, n)

native_theta(A) ==
    LET C == LaneTuple([x \in 0 .. 4 |->
                 BitXor(A[x + 1], BitXor(A[x + 6], BitXor(A[x + 11], BitXor(A[x + 16], A[x + 21]))))], 5)
        D == LaneTuple([x \in 0 .. 4 |->
                 BitXor(C[((x + 4) % 5) + 1], RotateLeft(C[((x + 1) % 5) + 1], 1))], 5)
    IN LaneTuple([k \in Lanes |-> BitXor(A[k + 1], D[(k % 5) + 1])], 25)
native_rho(A) == LaneTuple([k \in Lanes |-> RotateLeft(A[k + 1], ROTATIONS[k])], 25)
\* B[y, 2x + 3y] = A[x, y]
native_pi(A) ==
    LaneTuple([k \in Lanes |->
        LET source_x == CHOOSE c \in 0 .. 4 : (2 * c + 3 * (k % 5)) % 5 = k \div 5
        IN A[5 * (k % 5) + source_x + 1]], 25)
native_chi(A) ==
    LaneTuple([k \in Lanes |->
        BitXor(A[k + 1], BitAndNot(A[(k \div 5) * 5 + (((k % 5) + 1) % 5) + 1],
                                   A[(k \div 5) * 5 + (((k % 5) + 2) % 5) + 1]))], 25)
native_iota(A, round) == [A EXCEPT ![1] = BitXor(A[1], RC[round])]

native_round(A, round) ==
    native_iota(native_chi(native_pi(native_rho(native_theta(A)))), round)

\* the rounds from the given one on; the test of the length has the state
\* of a round evaluated before the next round starts
RECURSIVE native_keccakf(_, _)
native_keccakf(A, round) ==
    IF round >= NUM_ROUNDS \/ Len(A) # 25 THEN A
    ELSE native_keccakf(native_round(A, round), round + 1)

\* pad10*1: the bits 0x01 and 0x80 are xored into the first byte after the
\* input and into the last byte of the block
pad10star1(input) ==
    LET input_size == Size(input)
        blocks_length == BLOCK_SIZE * (input_size \div BLOCK_SIZE + 1)
    IN [k \in 0 .. (blocks_length - 1) |->
           (IF k < input_size THEN input[k] ELSE 0)
               + (IF k = input_size THEN 1 ELSE 0)
               + (IF k = blocks_length - 1 THEN Pow2(KeccakByteBits - 1) ELSE 0)]

\* a lane from its bytes, least significant first
RECURSIVE LittleEndianWord(_, _, _)
LittleEndianWord(bytes, i, count) ==
    IF count = 0 THEN 0
    ELSE bytes[i] + ByteRadixK * LittleEndianWord(bytes, i + 1, count - 1)

\* the block xored into the first LIMBS_PER_BLOCK lanes
native_load(A, padded, block) ==
    LaneTuple([k \in Lanes |->
        IF k < LIMBS_PER_BLOCK
        THEN BitXor(A[k + 1],
                 LittleEndianWord(padded, block * BLOCK_SIZE + k * WORD_SIZE, WORD_SIZE))
        ELSE A[k + 1]], 25)

RECURSIVE native_absorb(_, _, _)
native_absorb(A, padded, block) ==
    IF block * BLOCK_SIZE >= Size(padded) \/ Len(A) # 25 THEN A
    ELSE native_absorb(native_keccakf(native_load(A, padded, block), 0), padded, block + 1)

hash_native(input) ==
    LET A == native_absorb(LaneTuple([k \in Lanes |-> 0], 25), pad10star1(input), 0)
    IN [k \in 0 .. (OUTPUT_LIMBS * WORD_SIZE - 1) |->
           (A[(k \div WORD_SIZE) + 1] \div Pow2(KeccakByteBits * (k % WORD_SIZE))) % ByteRadixK]

(***************************************************************************)
(* UltraComposer::get_num_gates (ultra_composer.hpp).  size_t is 64 bits   *)
(* wide in the source; the model keeps the wrap-around of access_count - 1 *)
(* with a narrower width that gate_width divides as well.                  *)
(***************************************************************************)
\* ultra_settings::program_width
gate_width == 4
NUMBER_OF_GATES_PER_RAM_ACCESS == 2
NUMBER_OF_ARITHMETIC_GATES_PER_RAM_ARRAY == 1
\* one past the largest size_t
SizeModulus == 65536

\* the sum of the values of a function over a set of its arguments
RECURSIVE SumOf(_, _)
SumOf(f, S) ==
    IF S = {} THEN 0
    ELSE LET x == CHOOSE y \in S : TRUE
         IN f[x] + SumOf(f, S \ {x})

\* the padding of a list of n entries up to a multiple of gate_width
list_padding(n) ==
    LET padding == (gate_width - (n % gate_width)) % gate_width
    IN IF n = gate_width THEN padding + gate_width ELSE padding

\* gates of one ROM array: two per cell never set, one per read, one more
rom_array_gates(rom_array) ==
    2 * Cardinality({j \in Indices(rom_array.state) :
                        rom_array.state[j][0] = UNINITIALIZED_MEMORY_RECORD})
        + Size(rom_array.records) + 1

\* gates of one RAM array: two per cell never set, two per access, one more
ram_array_gates(ram_array) ==
    NUMBER_OF_GATES_PER_RAM_ACCESS
            * Cardinality({j \in Indices(ram_array.state) :
                              ram_array.state[j] = UNINITIALIZED_MEMORY_RECORD})
        + Size(ram_array.records) * NUMBER_OF_GATES_PER_RAM_ACCESS
        + NUMBER_OF_ARITHMETIC_GATES_PER_RAM_ARRAY

\* max_timestamp = access_count - 1 in size_t
max_timestamp(ram_array) == (ram_array.access_count - 1) % SizeModulus

\* gates of the range check of the timestamps of one RAM array
ram_range_check_gate_count(ram_array) ==
    LET ram_range_check_list_size ==
            (max_timestamp(ram_array) + list_padding(max_timestamp(ram_array))) % SizeModulus
    IN ram_range_check_list_size \div gate_width + 1

\* gates of one range list
range_list_gates(variable_indices) ==
    (Size(variable_indices) + list_padding(Size(variable_indices))) \div gate_width + 1

\* Mutant of get_num_gates_split_into_components: the range lists are not
\* compared with the timestamps
get_num_gates_split_never_exists(s) ==
    [count |-> Size(s.w_l),
     romcount |-> SumOf([i \in Indices(s.rom_arrays) |-> rom_array_gates(s.rom_arrays[i])],
                        Indices(s.rom_arrays)),
     ramcount |-> SumOf([i \in Indices(s.ram_arrays) |-> ram_array_gates(s.ram_arrays[i])],
                        Indices(s.ram_arrays)),
     rangecount |->
         SumOf([t \in DOMAIN s.range_lists |-> range_list_gates(s.range_lists[t])],
               DOMAIN s.range_lists)
         + SumOf([i \in Indices(s.ram_arrays) |->
                     ram_range_check_gate_count(s.ram_arrays[i])],
                 Indices(s.ram_arrays))]

\* get_num_gates_split_into_components, called with the four counts at zero
get_num_gates_split_into_components(s) ==
    LET ram_range_exists == [i \in Indices(s.ram_arrays) |->
            \E target_range \in DOMAIN s.range_lists :
                target_range = max_timestamp(s.ram_arrays[i])]
    IN [count |-> Size(s.w_l),
        romcount |-> SumOf([i \in Indices(s.rom_arrays) |-> rom_array_gates(s.rom_arrays[i])],
                           Indices(s.rom_arrays)),
        ramcount |-> SumOf([i \in Indices(s.ram_arrays) |-> ram_array_gates(s.ram_arrays[i])],
                           Indices(s.ram_arrays)),
        rangecount |->
            SumOf([t \in DOMAIN s.range_lists |-> range_list_gates(s.range_lists[t])],
                  DOMAIN s.range_lists)
            + SumOf([i \in Indices(s.ram_arrays) |->
                        IF ram_range_exists[i] THEN 0
                        ELSE ram_range_check_gate_count(s.ram_arrays[i])],
                    Indices(s.ram_arrays))]

\* get_num_gates: num_gates once the circuit is finalised, else the sum of
\* the four components
get_num_gates(s, finalised) ==
    LET components == get_num_gates_split_into_components(s)
    IN IF finalised THEN Size(s.w_l)
       ELSE components.count + components.romcount + components.ramcount
                + components.rangecount

(***************************************************************************)
(* Tags, the generalized permutation mapping and the Honk-style sigma      *)
(* polynomials.                                                            *)
(***************************************************************************)
\* create_tag(tag_index, tau_index): std::map::insert keeps the entry of a key
\* that is already there
create_tag(s, tag_index, tau_index) ==
    [s EXCEPT !.tau = IF tag_index \in DOMAIN s.tau
                      THEN s.tau
                      ELSE [t \in DOMAIN s.tau \cup {tag_index} |->
                               IF t = tag_index THEN tau_index ELSE s.tau[t]],
              !.current_tag = s.current_tag + 1]

\* assign_tag(variable_index, tag): the tag goes to the representative
assign_tag(s, variable_index, tag) ==
    [s EXCEPT !.real_variable_tags[s.real_variable_index[variable_index]] = tag]

\* PermutationMapping with every element pointing to itself; ids are filled
\* only when the mapping is generalized
IdentityPermutationMapping(n, generalized) ==
    [sigmas |-> IdentityMapping(n),
     ids |-> IF generalized THEN IdentityMapping(n) ELSE EmptyVec]

\* Mutant of ThreadCycleGeneralized: the tag is put on the first node's sigma cell
\* and on the last node's id cell
RECURSIVE ThreadCycleTagsSwapped(_, _, _, _, _)
ThreadCycleTagsSwapped(s, mapping, copy_cycle, cycle_index, node_idx) ==
    IF node_idx >= Size(copy_cycle)
    THEN mapping
    ELSE LET current_cycle_node == copy_cycle[node_idx]
             next_cycle_node_index ==
                 IF node_idx = Size(copy_cycle) - 1 THEN 0 ELSE node_idx + 1
             next_cycle_node == copy_cycle[next_cycle_node_index]
             current_row == current_cycle_node.gate_index
             current_column == current_cycle_node.wire_index
             first_node == node_idx = 0
             last_node == next_cycle_node_index = 0
             pointed == permutation_subgroup_element(next_cycle_node.gate_index,
                                                     next_cycle_node.wire_index,
                                                     FALSE, FALSE)
             sigma_cell ==
                 IF first_node
                 THEN [pointed EXCEPT !.is_tag = TRUE,
                                      !.row_index = s.tau[s.real_variable_tags[cycle_index]]]
                 ELSE pointed
             id_cell ==
                 IF last_node
                 THEN [mapping.ids[current_column][current_row] EXCEPT
                          !.is_tag = TRUE,
                          !.row_index = s.real_variable_tags[cycle_index]]
                 ELSE mapping.ids[current_column][current_row]
         IN ThreadCycleTagsSwapped(s,
                [sigmas |-> [mapping.sigmas EXCEPT ![current_column][current_row] = sigma_cell],
                 ids |-> [mapping.ids EXCEPT ![current_column][current_row] = id_cell]],
                copy_cycle, cycle_index, node_idx + 1)

\* The loop over the nodes of a cycle when generalized is true
RECURSIVE ThreadCycleGeneralized(_, _, _, _, _)
ThreadCycleGeneralized(s, mapping, copy_cycle, cycle_index, node_idx) ==
    IF node_idx >= Size(copy_cycle)
    THEN mapping
    ELSE LET current_cycle_node == copy_cycle[node_idx]
             next_cycle_node_index ==
                 IF node_idx = Size(copy_cycle) - 1 THEN 0 ELSE node_idx + 1
             next_cycle_node == copy_cycle[next_cycle_node_index]
             current_row == current_cycle_node.gate_index
             current_column == current_cycle_node.wire_index
             first_node == node_idx = 0
             last_node == next_cycle_node_index = 0
             pointed == permutation_subgroup_element(next_cycle_node.gate_index,
                                                     next_cycle_node.wire_index,
                                                     FALSE, FALSE)
             sigma_cell ==
                 IF last_node
                 THEN [pointed EXCEPT !.is_tag = TRUE,
                                      !.row_index = s.tau[s.real_variable_tags[cycle_index]]]
                 ELSE pointed
             id_cell ==
                 IF first_node
                 THEN [mapping.ids[current_column][current_row] EXCEPT
                          !.is_tag = TRUE,
                          !.row_index = s.real_variable_tags[cycle_index]]
                 ELSE mapping.ids[current_column][current_row]
         IN ThreadCycleGeneralized(s,
                [sigmas |-> [mapping.sigmas EXCEPT ![current_column][current_row] = sigma_cell],
                 ids |-> [mapping.ids EXCEPT ![current_column][current_row] = id_cell]],
                copy_cycle, cycle_index, node_idx + 1)

RECURSIVE ThreadCyclesGeneralized(_, _, _, _)
ThreadCyclesGeneralized(s, mapping, cycles, cycle_index) ==
    IF cycle_index >= Size(cycles)
    THEN mapping
    ELSE ThreadCyclesGeneralized(s,
            ThreadCycleGeneralized(s, mapping, cycles[cycle_index], cycle_index, 0),
            cycles, cycle_index + 1)

\* tau.at(tag) throws when the tag of a cycle that has nodes is no key of tau
TauHasTags(s) ==
    \A cycle_index \in Indices(s.variables) :
        Size(compute_wire_copy_cycles(s)[cycle_index]) > 0
            => s.real_variable_tags[cycle_index] \in DOMAIN s.tau

\* compute_permutation_mapping<program_width, true>: mapping.sigmas and mapping.ids
compute_permutation_mapping_generalized(s) ==
    LET threaded ==
            ThreadCyclesGeneralized(s, IdentityPermutationMapping(circuit_size(s), TRUE),
                                    compute_wire_copy_cycles(s), 0)
    IN [sigmas |-> MarkPublicInputs(threaded.sigmas, Size(s.public_inputs), 0),
        ids |-> threaded.ids]

\* -fr(x): the negation in the scalar field, scaled to the modulus of the model
fr_neg(x) == (modulus_value - (x % modulus_value)) % modulus_value

\* Mutant of the Honk-style polynomials: the public-input flag is not looked at
honk_style_sigma_ignoring_public_inputs(sigma_mappings, n) ==
    [wire_index \in 0 .. (program_width - 1) |->
        [i \in 0 .. (n - 1) |->
            LET current_mapping == sigma_mappings[wire_index][i]
            IN (current_mapping.row_index + n * current_mapping.column_index)
                   % modulus_value]]

\* compute_honk_style_sigma_lagrange_polynomials_from_mapping: sigma[wire_index][i]
\* for the n = key->circuit_size rows
compute_honk_style_sigma_lagrange_polynomials_from_mapping(sigma_mappings, n) ==
    [wire_index \in 0 .. (program_width - 1) |->
        [i \in 0 .. (n - 1) |->
            LET current_mapping == sigma_mappings[wire_index][i]
            IN IF current_mapping.is_public_input
               THEN fr_neg(current_mapping.row_index + 1
                               + n * current_mapping.column_index)
               ELSE (current_mapping.row_index + n * current_mapping.column_index)
                        % modulus_value]]

(***************************************************************************)
(* Actions: one per call of the composer.                                  *)
(***************************************************************************)
AddVariable(in) ==
    /\ Constructing
    /\ Store(add_variable(Composer, in))
    /\ check_circuit_result' = "none"
    /\ UNCHANGED <<key_vars, permutation_vars, memory_vars, sort_vars, queue_vars, call_vars>>

SetPublicInput(witness_index) ==
    /\ Constructing
    /\ Size(public_inputs) < MaxPublicInputs
    /\ Store(set_public_input(Composer, witness_index))
    /\ check_circuit_result' = "none"
    /\ UNCHANGED <<key_vars, permutation_vars, memory_vars, sort_vars, queue_vars, call_vars>>

CreateAddGate(a, b, c, a_scaling, b_scaling, c_scaling, const_scaling) ==
    /\ Constructing
    /\ num_gates < MaxGates
    /\ Store(create_add_gate(Composer, a, b, c, a_scaling, b_scaling, c_scaling, const_scaling))
    /\ check_circuit_result' = "none"
    /\ UNCHANGED <<key_vars, permutation_vars, memory_vars, sort_vars, queue_vars, call_vars>>

AssertEqual(a_idx, b_idx) ==
    /\ Constructing
    /\ Store(assert_equal(Composer, a_idx, b_idx, "assert_equal"))
    /\ check_circuit_result' = "none"
    /\ UNCHANGED <<key_vars, permutation_vars, memory_vars, sort_vars, queue_vars, call_vars>>

AssertEqualConstant(a_idx, b) ==
    /\ Constructing
    /\ HasConstant(Composer, b) \/ (Size(variables) < MaxVariables /\ num_gates < MaxGates)
    /\ Store(assert_equal_constant(Composer, a_idx, b, "assert equal constant"))
    /\ check_circuit_result' = "none"
    /\ UNCHANGED <<key_vars, permutation_vars, memory_vars, sort_vars, queue_vars, call_vars>>

AddRecursiveProof(proof_output_witness_indices) ==
    /\ Constructing
    /\ Size(public_inputs) + Len(proof_output_witness_indices) <= MaxRecursiveInputs
    /\ Store(add_recursive_proof(Composer, proof_output_witness_indices))
    /\ check_circuit_result' = "none"
    /\ UNCHANGED <<key_vars, permutation_vars, memory_vars, sort_vars, queue_vars, call_vars>>

\* compute_standard_plonk_sigma_permutations: the cycles and the mapping of the circuit
ComputeSigmaPermutations ==
    /\ Constructing
    /\ wire_copy_cycles' = compute_wire_copy_cycles(Composer)
    /\ sigmas' = compute_permutation_mapping(Composer)
    /\ UNCHANGED <<ids, sigma_lagrange>>
    /\ UNCHANGED <<constructor_vars, failure_vars, recursion_vars, key_vars,
                   check_circuit_result, memory_vars, sort_vars, queue_vars, call_vars>>

ComputeProvingKey ==
    /\ circuit_proving_key = "null"
    /\ circuit_proving_key' = compute_proving_key(Composer)
    /\ UNCHANGED <<constructor_vars, failure_vars, recursion_vars, circuit_verification_key,
                   permutation_vars, check_circuit_result, memory_vars, sort_vars, queue_vars, call_vars>>

ComputeVerificationKey ==
    /\ circuit_verification_key = "null"
    /\ circuit_verification_key' = compute_verification_key(Composer)
    /\ UNCHANGED <<constructor_vars, failure_vars, recursion_vars, circuit_proving_key,
                   permutation_vars, check_circuit_result, memory_vars, sort_vars, queue_vars, call_vars>>

CheckCircuit ==
    /\ check_circuit_result = "none"
    /\ check_circuit_result' = IF check_circuit(Composer) THEN "true" ELSE "false"
    /\ UNCHANGED <<constructor_vars, failure_vars, recursion_vars, key_vars, permutation_vars,
                   memory_vars, sort_vars, queue_vars, call_vars>>

\* The accesses made to the RAM arrays ram_id, ram_id + 1, ...
RECURSIVE TotalRamAccesses(_, _)
TotalRamAccesses(arrays, ram_id) ==
    IF ram_id >= Size(arrays)
    THEN 0
    ELSE arrays[ram_id].access_count + TotalRamAccesses(arrays, ram_id + 1)

CreateRamArray(array_size) ==
    /\ Constructing /\ ~circuit_finalised /\ ~aborted
    /\ Store(create_RAM_array(Composer, array_size))
    /\ check_circuit_result' = "none"
    /\ read_result' = <<>>
    /\ UNCHANGED <<key_vars, permutation_vars, circuit_finalised, sorted_ram_records,
                   aborted, sort_vars, queue_vars, call_vars>>

InitRamElement(ram_id, index_value, value_witness) ==
    /\ Constructing /\ ~circuit_finalised /\ ~aborted
    /\ TotalRamAccesses(ram_arrays, 0) < MaxRamAccesses
    /\ ram_arrays[ram_id].state[index_value] = UNINITIALIZED_MEMORY_RECORD
    /\ Store(init_RAM_element(Composer, ram_id, index_value, value_witness))
    /\ check_circuit_result' = "none"
    /\ read_result' = <<>>
    /\ UNCHANGED <<key_vars, permutation_vars, circuit_finalised, sorted_ram_records,
                   aborted, sort_vars, queue_vars, call_vars>>

WriteRamArray(ram_id, index, value_witness) ==
    /\ Constructing /\ ~circuit_finalised /\ ~aborted
    /\ TotalRamAccesses(ram_arrays, 0) < MaxRamAccesses
    /\ ram_arrays[ram_id].state[index] # UNINITIALIZED_MEMORY_RECORD
    /\ Store(write_RAM_array(Composer, ram_id, index, value_witness))
    /\ check_circuit_result' = "none"
    /\ read_result' = <<>>
    /\ UNCHANGED <<key_vars, permutation_vars, circuit_finalised, sorted_ram_records,
                   aborted, sort_vars, queue_vars, call_vars>>

ReadRamArray(ram_id, index) ==
    /\ Constructing /\ ~circuit_finalised /\ ~aborted
    /\ TotalRamAccesses(ram_arrays, 0) < MaxRamAccesses
    /\ ram_arrays[ram_id].state[index] # UNINITIALIZED_MEMORY_RECORD
    /\ Store(read_RAM_array(Composer, ram_id, index))
    /\ check_circuit_result' = "none"
    /\ read_result' = <<read_RAM_array_index(Composer, ram_id, index)>>
    /\ UNCHANGED <<key_vars, permutation_vars, circuit_finalised, sorted_ram_records,
                   aborted, sort_vars, queue_vars, call_vars>>

\* The witnesses that a read of a RAM array returned
RamReadWitnesses ==
    {w \in Indices(variables) :
        \E ram_id \in Indices(ram_arrays) : \E k \in Indices(ram_arrays[ram_id].records) :
            /\ ram_arrays[ram_id].records[k].value_witness = w
            /\ ram_arrays[ram_id].records[k].access_type = "READ"}

\* The prover assigns the witness: a read is given another value than the
\* one read_RAM_array computed
AssignWitness(witness_index, value) ==
    /\ ~aborted
    /\ witness_index \in RamReadWitnesses
    /\ variables[witness_index] # value
    /\ variables' = [variables EXCEPT ![witness_index] = value]
    /\ check_circuit_result' = "none"
    /\ UNCHANGED <<real_variable_index, public_inputs, w_l, w_r, w_o, q_m, q_1, q_2, q_3, q_c,
                   constant_variable_indices, ram_arrays, rom_arrays, range_lists,
                   real_variable_tags, tau, current_tag, failure_vars,
                   recursion_vars, key_vars, permutation_vars, memory_vars, sort_vars, queue_vars, call_vars>>

\* process_RAM_arrays, called when the circuit is finalised
ProcessRamArrays ==
    /\ Constructing /\ ~circuit_finalised /\ ~aborted
    /\ sorted_ram_records' = process_RAM_arrays(Composer)
    /\ circuit_finalised' = TRUE
    /\ UNCHANGED <<constructor_vars, failure_vars, recursion_vars, key_vars, permutation_vars,
                   check_circuit_result, read_result, aborted, sort_vars, queue_vars, call_vars>>

CreateRomArray(array_size) ==
    /\ Constructing /\ ~circuit_finalised /\ ~aborted
    /\ Size(rom_arrays) < MaxRomArrays
    /\ Store(create_ROM_array(Composer, array_size))
    /\ check_circuit_result' = "none"
    /\ read_result' = <<>>
    /\ UNCHANGED <<key_vars, permutation_vars, circuit_finalised, sorted_ram_records,
                   aborted, sort_vars, queue_vars, call_vars>>

SetRomElement(rom_id, index_value, value_witness) ==
    /\ Constructing /\ ~circuit_finalised /\ ~aborted
    /\ IF set_ROM_element_is_fatal(Composer, rom_id, index_value)
       THEN /\ aborted' = TRUE
            /\ UNCHANGED <<constructor_vars, failure_vars, recursion_vars>>
       ELSE /\ Store(set_ROM_element(Composer, rom_id, index_value, value_witness))
            /\ aborted' = FALSE
    /\ check_circuit_result' = "none"
    /\ read_result' = <<>>
    /\ UNCHANGED <<key_vars, permutation_vars, circuit_finalised, sorted_ram_records,
                   sort_vars, queue_vars, call_vars>>

ReadRomArray(rom_id, index) ==
    /\ Constructing /\ ~circuit_finalised /\ ~aborted
    /\ Size(rom_arrays[rom_id].records) < MaxRomReads
    /\ Store(read_ROM_array(Composer, rom_id, index))
    /\ check_circuit_result' = "none"
    /\ read_result' = read_ROM_array_result(Composer, rom_id, index)
    /\ UNCHANGED <<key_vars, permutation_vars, circuit_finalised, sorted_ram_records,
                   aborted, sort_vars, queue_vars, call_vars>>

\* The variables registered in the range lists
RECURSIVE TotalRangeEntries(_, _)
TotalRangeEntries(lists, targets) ==
    IF targets = {}
    THEN 0
    ELSE LET target_range == CHOOSE t \in targets : TRUE
         IN Size(lists[target_range]) + TotalRangeEntries(lists, targets \ {target_range})

CreateRangeConstraint(variable_index, num_bits) ==
    /\ Constructing /\ ~circuit_finalised /\ ~aborted
    /\ TotalRangeEntries(range_lists, DOMAIN range_lists) < MaxRangeEntries
    /\ Store(create_range_constraint(Composer, variable_index, num_bits))
    /\ check_circuit_result' = "none"
    /\ UNCHANGED <<key_vars, permutation_vars, memory_vars, sort_vars, queue_vars, call_vars>>

AddCommitment(polynomial, label) ==
    /\ Size(work_item_queue) < MaxQueue
    /\ work_item_queue' = add_commitment(work_item_queue, polynomial, label)
    /\ UNCHANGED <<constructor_vars, failure_vars, recursion_vars, key_vars, permutation_vars,
                   check_circuit_result, memory_vars, sort_vars, transcript, call_vars>>

ProcessQueue ==
    /\ Size(transcript) + Size(work_item_queue) <= MaxTranscript
    /\ work_item_queue' = process_queue(work_item_queue, transcript).work_item_queue
    /\ transcript' = process_queue(work_item_queue, transcript).transcript
    /\ UNCHANGED <<constructor_vars, failure_vars, recursion_vars, key_vars, permutation_vars,
                   check_circuit_result, memory_vars, sort_vars, call_vars>>

FlushQueue ==
    /\ work_item_queue' = EmptyVec
    /\ UNCHANGED <<constructor_vars, failure_vars, recursion_vars, key_vars, permutation_vars,
                   check_circuit_result, memory_vars, sort_vars, transcript, call_vars>>

PutScalarMultiplicationData(result, work_item_number) ==
    /\ Size(transcript) < MaxTranscript
    /\ transcript' = put_scalar_multiplication_data(work_item_queue, transcript, result,
                                                    work_item_number)
    /\ UNCHANGED <<constructor_vars, failure_vars, recursion_vars, key_vars, permutation_vars,
                   check_circuit_result, memory_vars, sort_vars, work_item_queue, call_vars>>

\* write(buf, value) on the element of the call into an empty buffer
WriteField ==
    /\ Size(call_input) = 1
    /\ call_output' = [call |-> "write", buf |-> write(<<>>, call_input[0])]
    /\ UNCHANGED <<constructor_vars, failure_vars, recursion_vars, key_vars, permutation_vars,
                   check_circuit_result, memory_vars, sort_vars, queue_vars, call_input>>

\* read(it, value) from the buffer the write has filled
ReadField ==
    /\ call_output.call = "write"
    /\ call_output' = [call |-> "read", buf |-> call_output.buf, value |-> read(call_output.buf)]
    /\ UNCHANGED <<constructor_vars, failure_vars, recursion_vars, key_vars, permutation_vars,
                   check_circuit_result, memory_vars, sort_vars, queue_vars, call_input>>

\* a.invert() on the element of the call
InvertField ==
    /\ Size(call_input) = 1
    /\ call_output' = [call |-> "invert", value |-> invert(call_input[0])]
    /\ UNCHANGED <<constructor_vars, failure_vars, recursion_vars, key_vars, permutation_vars,
                   check_circuit_result, memory_vars, sort_vars, queue_vars, call_input>>

\* field::batch_invert(coeffs) on the elements of the call
BatchInvertField ==
    /\ call_output' = [call |-> "batch_invert", coeffs |-> batch_invert(call_input)]
    /\ UNCHANGED <<constructor_vars, failure_vars, recursion_vars, key_vars, permutation_vars,
                   check_circuit_result, memory_vars, sort_vars, queue_vars, call_input>>

\* normalize_and_rotate<lane_index>(limb, msb) on the limb of the call
NormalizeAndRotate ==
    /\ call_input.call = "normalize_and_rotate"
    /\ call_output.call = "none"
    /\ call_output' = [call |-> "normalize_and_rotate",
                       result |-> normalize_and_rotate(call_input.lane_index, call_input.limb)]
    /\ UNCHANGED <<constructor_vars, failure_vars, recursion_vars, key_vars, permutation_vars,
                   check_circuit_result, memory_vars, sort_vars, queue_vars, call_input>>

\* hash(input) up to the first block of sponge_absorb
KeccakHash ==
    /\ call_input.call = "hash"
    /\ call_output.call = "none"
    /\ LET buffers == hash_buffers(call_input.input)
       IN call_output' =
              [call |-> "hash", pc |-> "theta", round |-> 0, block |-> 0,
               input_buffer |-> buffers.converted_buffer,
               msb_buffer |-> buffers.msb_buffer,
               internal |-> sponge_absorb_block(NewKeccakState, buffers.converted_buffer,
                                                buffers.msb_buffer, 0)]
    /\ UNCHANGED <<constructor_vars, failure_vars, recursion_vars, key_vars, permutation_vars,
                   check_circuit_result, memory_vars, sort_vars, queue_vars, call_input>>

\* the position of a running hash
HashAt(pc) == call_output.call = "hash" /\ call_output.pc = pc

\* keccakf1600, one step of a round
KeccakTheta ==
    /\ HashAt("theta")
    /\ call_output' = [call_output EXCEPT !.internal = theta(@), !.pc = "rho"]
    /\ UNCHANGED <<constructor_vars, failure_vars, recursion_vars, key_vars, permutation_vars,
                   check_circuit_result, memory_vars, sort_vars, queue_vars, call_input>>

KeccakRho ==
    /\ HashAt("rho")
    /\ call_output' = [call_output EXCEPT !.internal = rho(@), !.pc = "pi"]
    /\ UNCHANGED <<constructor_vars, failure_vars, recursion_vars, key_vars, permutation_vars,
                   check_circuit_result, memory_vars, sort_vars, queue_vars, call_input>>

KeccakPi ==
    /\ HashAt("pi")
    /\ call_output' = [call_output EXCEPT !.internal = pi(@), !.pc = "chi"]
    /\ UNCHANGED <<constructor_vars, failure_vars, recursion_vars, key_vars, permutation_vars,
                   check_circuit_result, memory_vars, sort_vars, queue_vars, call_input>>

KeccakChi ==
    /\ HashAt("chi")
    /\ call_output' = [call_output EXCEPT !.internal = chi(@), !.pc = "iota"]
    /\ UNCHANGED <<constructor_vars, failure_vars, recursion_vars, key_vars, permutation_vars,
                   check_circuit_result, memory_vars, sort_vars, queue_vars, call_input>>

\* iota ends the round; after the last round of a block sponge_absorb goes
\* on to the next block, or hash goes on to sponge_squeeze
KeccakIota ==
    /\ HashAt("iota")
    /\ call_output' =
           [call_output EXCEPT
               !.internal = iota(@, call_output.round),
               !.round = IF @ = NUM_ROUNDS - 1 THEN 0 ELSE @ + 1,
               !.pc = IF call_output.round # NUM_ROUNDS - 1 THEN "theta"
                      ELSE IF call_output.block + 1
                                  < Size(call_output.input_buffer) \div (BLOCK_SIZE \div WORD_SIZE)
                           THEN "absorb" ELSE "squeeze"]
    /\ UNCHANGED <<constructor_vars, failure_vars, recursion_vars, key_vars, permutation_vars,
                   check_circuit_result, memory_vars, sort_vars, queue_vars, call_input>>

\* sponge_absorb, a block after the first
SpongeAbsorb ==
    /\ HashAt("absorb")
    /\ call_output' =
           [call_output EXCEPT
               !.block = @ + 1,
               !.internal = sponge_absorb_block(@, call_output.input_buffer,
                                                call_output.msb_buffer, call_output.block + 1),
               !.pc = "theta"]
    /\ UNCHANGED <<constructor_vars, failure_vars, recursion_vars, key_vars, permutation_vars,
                   check_circuit_result, memory_vars, sort_vars, queue_vars, call_input>>

\* sponge_squeeze: hash returns the digest
SpongeSqueeze ==
    /\ HashAt("squeeze")
    /\ call_output' = [call |-> "hash", pc |-> "done",
                       result |-> sponge_squeeze(call_output.internal)]
    /\ UNCHANGED <<constructor_vars, failure_vars, recursion_vars, key_vars, permutation_vars,
                   check_circuit_result, memory_vars, sort_vars, queue_vars, call_input>>

\* get_num_gates() on the circuit as it stands
GetNumGates ==
    /\ call_output.call = "none"
    /\ call_output' = [call |-> "get_num_gates",
                       value |-> get_num_gates(Composer, circuit_finalised)]
    /\ UNCHANGED <<constructor_vars, failure_vars, recursion_vars, key_vars, permutation_vars,
                   check_circuit_result, memory_vars, sort_vars, queue_vars, call_input>>

GetNumGatesSplitIntoComponents ==
    /\ call_output.call = "none"
    /\ call_output' = [call |-> "get_num_gates_split_into_components",
                       components |-> get_num_gates_split_into_components(Composer)]
    /\ UNCHANGED <<constructor_vars, failure_vars, recursion_vars, key_vars, permutation_vars,
                   check_circuit_result, memory_vars, sort_vars, queue_vars, call_input>>

CreateTag(tag_index, tau_index) ==
    /\ Constructing
    /\ current_tag < MaxTags
    /\ Store(create_tag(Composer, tag_index, tau_index))
    /\ check_circuit_result' = "none"
    /\ UNCHANGED <<key_vars, permutation_vars, memory_vars, sort_vars, queue_vars, call_vars>>

\* assign_tag: its two assertions are the conditions of the call
AssignTag(variable_index, tag) ==
    /\ Constructing
    /\ tag <= current_tag
    /\ real_variable_tags[real_variable_index[variable_index]] = DUMMY_TAG
    /\ Store(assign_tag(Composer, variable_index, tag))
    /\ check_circuit_result' = "none"
    /\ UNCHANGED <<key_vars, permutation_vars, memory_vars, sort_vars, queue_vars, call_vars>>

\* compute_standard_honk_sigma_permutations
ComputeHonkSigmaPermutations ==
    /\ Constructing
    /\ wire_copy_cycles' = compute_wire_copy_cycles(Composer)
    /\ sigmas' = compute_permutation_mapping(Composer)
    /\ ids' = ids
    /\ sigma_lagrange' =
           compute_honk_style_sigma_lagrange_polynomials_from_mapping(
               compute_permutation_mapping(Composer), circuit_size(Composer))
    /\ UNCHANGED <<constructor_vars, failure_vars, recursion_vars, key_vars,
                   check_circuit_result, memory_vars, sort_vars, queue_vars, call_vars>>

\* compute_plonk_generalized_sigma_permutations: the mapping; a tag that tau
\* does not hold ends the program (std::out_of_range)
ComputeGeneralizedSigmaPermutations ==
    /\ Constructing
    /\ ~aborted
    /\ IF TauHasTags(Composer)
       THEN /\ wire_copy_cycles' = compute_wire_copy_cycles(Composer)
            /\ sigmas' = compute_permutation_mapping_generalized(Composer).sigmas
            /\ ids' = compute_permutation_mapping_generalized(Composer).ids
            /\ UNCHANGED <<sigma_lagrange, memory_vars>>
       ELSE /\ aborted' = TRUE
            /\ UNCHANGED <<permutation_vars, circuit_finalised, sorted_ram_records, read_result>>
    /\ UNCHANGED <<constructor_vars, failure_vars, recursion_vars, key_vars,
                   check_circuit_result, sort_vars, queue_vars, call_vars>>

\* Sequences of at most n elements of S
SeqsUpTo(S, n) == UNION {[1 .. k -> S] : k \in 0 .. n}

\* A work queue and a transcript as constructed: nothing queued, nothing sent
InitWorkQueue == work_item_queue = EmptyVec /\ transcript = EmptyVec

\* No function was called
NoCall == call_input = EmptyVec /\ call_output = [call |-> "none"]

Init ==
    /\ InitComposer
    /\ sort_input = EmptyVec /\ sort_output = EmptyVec
    /\ InitWorkQueue
    /\ NoCall

\* The circuits whose copy cycles and sigma mapping are computed.  The mapping
\* reads the wires, the classes and the public inputs, never the values.
Next ==
    \/ \E in \in PermutationWitnessValues : Size(variables) < MaxVariables /\ AddVariable(in)
    \/ \E w \in Indices(variables) : SetPublicInput(w)
    \/ \E a, b, c \in Indices(variables) : CreateAddGate(a, b, c, 1, 1, -1, 0)
    \/ \E a, b \in Indices(variables) : AssertEqual(a, b)
    \/ ComputeSigmaPermutations

Spec == Init /\ [][Next]_vars

\* Soft failures and key computation.
NextFailure ==
    \/ \E in \in WitnessValues : Size(variables) < MaxVariables /\ AddVariable(in)
    \/ \E a \in Indices(variables), b \in WitnessValues : AssertEqualConstant(a, b)
    \/ \E p \in SeqsUpTo(Indices(variables), MaxProofOutputs) : AddRecursiveProof(p)
    \/ ComputeProvingKey
    \/ ComputeVerificationKey

SpecFailure == Init /\ [][NextFailure]_vars

\* One add gate over three witnesses, then check_circuit.
NextGate ==
    \/ \E in \in GateWitnessValues : Size(variables) < program_width /\ AddVariable(in)
    \/ \E a, b, c \in Indices(variables) :
          num_gates < MaxAddGates /\ CreateAddGate(a, b, c, 1, 1, -1, 0)
    \/ CheckCircuit

SpecGate == Init /\ [][NextGate]_vars

\* One RAM array: cells are initialised, written and read, the prover may give
\* a read another value, and the circuit is finalised.
NextRam ==
    \/ \E in \in RamValues : Size(variables) < Cardinality(RamValues) /\ AddVariable(in)
    \/ \E array_size \in RamArraySizes :
                    Size(ram_arrays) < MaxRamArrays /\ CreateRamArray(array_size)
    \/ \E ram_id \in Indices(ram_arrays) :
          \E index \in Indices(ram_arrays[ram_id].state), value_witness \in Indices(variables) :
              InitRamElement(ram_id, index, value_witness)
    \/ \E ram_id \in Indices(ram_arrays) :
          \E index \in Indices(ram_arrays[ram_id].state), value_witness \in Indices(variables) :
              WriteRamArray(ram_id, index, value_witness)
    \/ \E ram_id \in Indices(ram_arrays) :
          \E index \in Indices(ram_arrays[ram_id].state) : ReadRamArray(ram_id, index)
    \/ \E witness_index \in Indices(variables), value \in RamValues :
          AssignWitness(witness_index, value)
    \/ ProcessRamArrays

SpecRam == Init /\ [][NextRam]_vars

\* One ROM array: the witnesses 10, 20, 30, 40 are added in this order, cells
\* are set and read.
NextRom ==
    \/ \E in \in RomValues :
          /\ Size(variables) < Cardinality(RomValues)
          /\ \A other \in RomValues :
                other < in <=> \E i \in Indices(variables) : variables[i] = other
          /\ AddVariable(in)
    \/ \E array_size \in RomArraySizes : CreateRomArray(array_size)
    \/ \E rom_id \in Indices(rom_arrays) :
          \E index \in Indices(rom_arrays[rom_id].state), value_witness \in Indices(variables) :
              SetRomElement(rom_id, index, value_witness)
    \/ \E rom_id \in Indices(rom_arrays) :
          \E index \in Indices(rom_arrays[rom_id].state) : ReadRomArray(rom_id, index)

SpecRom == Init /\ [][NextRom]_vars

\* The records handed to the sort: any indices, timestamps and access types
SortRecordDomain ==
    [index : SortIndices, timestamp : SortTimestamps,
     access_type : {"READ", "WRITE"}, value_witness : {0}]

VectorsUpTo(S, n) == {VectorOf(seq) : seq \in SeqsUpTo(S, n)}

InitSort ==
    /\ InitComposer
    /\ sort_input \in VectorsUpTo(SortRecordDomain, MaxSortRecords)
    /\ sort_output = EmptyVec
    /\ InitWorkQueue
    /\ NoCall

\* The sort of process_RAM_array applied to the records
SortRamRecords ==
    /\ sort_input # EmptyVec
    /\ sort_output = EmptyVec
    /\ sort_output' = sort_records(sort_input)
    /\ UNCHANGED <<constructor_vars, failure_vars, recursion_vars, key_vars, permutation_vars,
                   check_circuit_result, memory_vars, sort_input, queue_vars, call_vars>>

NextSort == SortRamRecords

SpecSort == InitSort /\ [][NextSort]_vars

\* Range constraints of at most, exactly and more than the default number of
\* bits on a few witnesses.
NextRange ==
    \/ \E in \in RangeWitnessValues : Size(variables) < MaxRangeVariables /\ AddVariable(in)
    \/ \E variable_index \in Indices(variables), num_bits \in RangeBitnums :
          CreateRangeConstraint(variable_index, num_bits)
    \/ CheckCircuit

SpecRange == Init /\ [][NextRange]_vars

\* The work queue: commitments are queued, processed, flushed, and results
\* computed outside are put.
NextQueue ==
    \/ \E polynomial \in Polynomials, label \in Labels : AddCommitment(polynomial, label)
    \/ ProcessQueue
    \/ FlushQueue
    \/ \E polynomial \in Polynomials, work_item_number \in 0 .. MaxQueue :
          PutScalarMultiplicationData(commit(polynomial), work_item_number)

SpecQueue == Init /\ [][NextQueue]_vars

\* The work queue when every commitment is queued under a label of its own:
\* a label is used again only after its item was flushed without being sent.
LabelInUse(label) ==
    \/ \E k \in Indices(work_item_queue) : work_item_queue[k].label = label
    \/ \E k \in Indices(transcript) : transcript[k].label = label

NextQueueLabels ==
    \/ \E polynomial \in Polynomials, label \in Labels :
          ~LabelInUse(label) /\ AddCommitment(polynomial, label)
    \/ ProcessQueue
    \/ FlushQueue
    \/ \E polynomial \in Polynomials, work_item_number \in 0 .. MaxQueue :
          PutScalarMultiplicationData(commit(polynomial), work_item_number)

SpecQueueLabels == Init /\ [][NextQueueLabels]_vars

(***************************************************************************)
(* The field on its own: one call on elements drawn at the start.          *)
(***************************************************************************)
MaxBatch == 3
\* every stored representative: the coarse form [0, 2 * modulus)
FieldElements == {field(n) : n \in 0 .. (2 * modulus_value - 1)}
\* the elements of a batch: zero, one, both representatives of zero and
\* of a non-trivial element, and two more elements
BatchElements == {field(0), field(modulus_value), one, field(2), field(2 + modulus_value), field(17)}
CallableVectors(S, lo, hi) == {v \in VectorsUpTo(S, hi) : Size(v) >= lo}
InitField ==
    /\ InitComposer
    /\ sort_input = EmptyVec
    /\ sort_output = EmptyVec
    /\ InitWorkQueue
    /\ call_input \in CallableVectors(FieldElements, 1, 1) \cup CallableVectors(BatchElements, 2, MaxBatch)
    /\ call_output = [call |-> "none"]
NextField ==
    \/ WriteField
    \/ ReadField
    \/ InvertField
    \/ BatchInvertField
SpecField == InitField /\ [][NextField]_vars

(***************************************************************************)
(* The endomorphism split on its own.  The lattice basis and the cube root *)
(* of unity are constants of Params, which are not part of the sources at  *)
(* hand: a call draws them, with the scalar and the two output objects,    *)
(* at the start.  The modulus has a top limb below LimbRadix / 4, so the   *)
(* call takes the path of a modulus two bits short of the 4-limb width.    *)
(***************************************************************************)
\* mul_512: the full product of two 4-limb values, as a wide_array of 8 limbs
mul_512(a, b) ==
    [i \in 0 .. 7 |-> ((uint256(a) * uint256(b)) \div Pow2(LimbBits * i)) % LimbRadix]

\* operator-: the difference of two values of the coarse form, brought back
\* into [0, 2 * modulus) by adding twice the modulus after a borrow
field_sub(a, b) ==
    LET d == uint256(a) - uint256(b)
    IN field(IF d < 0 THEN (d + 2 * modulus_value) % MontgomeryR ELSE d)

\* operator+: the sum, with twice the modulus subtracted when it is reached
field_add(a, b) ==
    LET s == uint256(a) + uint256(b)
    IN field(IF s >= 2 * modulus_value THEN s - 2 * modulus_value ELSE s)

\* cube_root_of_unity() with Params::cube_root_0 != 0
cube_root_of_unity(params) == params.cube_root

\* the values t1 and t2 of split_into_endomorphism_scalars
endomorphism_t1(params, k) ==
    LET input == reduce_once(k)
        endo_g1 == (0 :> params.endo_g1_lo @@ 1 :> params.endo_g1_mid
                       @@ 2 :> params.endo_g1_hi @@ 3 :> 0)
        endo_g2 == (0 :> params.endo_g2_lo @@ 1 :> params.endo_g2_mid @@ 2 :> 0 @@ 3 :> 0)
        endo_minus_b1 == (0 :> params.endo_minus_b1_lo @@ 1 :> params.endo_minus_b1_mid
                             @@ 2 :> 0 @@ 3 :> 0)
        endo_b2 == (0 :> params.endo_b2_lo @@ 1 :> params.endo_b2_mid @@ 2 :> 0 @@ 3 :> 0)
        c1 == mul_512(endo_g2, input)
        c2 == mul_512(endo_g1, input)
        c1_hi == [i \in 0 .. 3 |-> c1[i + 4]]
        c2_hi == [i \in 0 .. 3 |-> c2[i + 4]]
        q1 == mul_512(c1_hi, endo_minus_b1)
        q2 == mul_512(c2_hi, endo_b2)
        q1_lo == [i \in 0 .. 3 |-> q1[i]]
        q2_lo == [i \in 0 .. 3 |-> q2[i]]
    IN reduce_once(field_sub(q2_lo, q1_lo))
endomorphism_t2(params, k) ==
    LET input == reduce_once(k)
        t1 == endomorphism_t1(params, k)
        beta == cube_root_of_unity(params)
    IN reduce_once(field_add(montgomery_mul(t1, beta), input))

\* split_into_endomorphism_scalars(k, k1, k2) copying t2 and t1 whole
split_into_endomorphism_scalars_whole(params, k, k1, k2) ==
    [k |-> k, k1 |-> endomorphism_t2(params, k), k2 |-> endomorphism_t1(params, k)]
\* split_into_endomorphism_scalars(k, k1, k2): the three objects after the call
split_into_endomorphism_scalars(params, k, k1, k2) ==
    LET t1 == endomorphism_t1(params, k)
        t2 == endomorphism_t2(params, k)
    IN [k |-> k,
        k1 |-> [k1 EXCEPT ![0] = t2[0], ![1] = t2[1]],
        k2 |-> [k2 EXCEPT ![0] = t1[0], ![1] = t1[1]]]

\* field::split_into_endomorphism_scalars(k, k1, k2) on the objects of the call
SplitIntoEndomorphismScalars ==
    /\ call_output.call = "none"
    /\ call_output' =
           [call |-> "split_into_endomorphism_scalars",
            after |-> split_into_endomorphism_scalars(call_input.params, call_input.k,
                                                      call_input.k1, call_input.k2)]
    /\ UNCHANGED <<constructor_vars, failure_vars, recursion_vars, key_vars, permutation_vars,
                   check_circuit_result, memory_vars, sort_vars, queue_vars, call_input>>

\* the scalars of a call: small and large values of both representatives
EndoScalars == {field(0), field(1), field(22), field(58), field(59), field(117)}
\* the objects handed in as k1 and k2: cleared, or holding earlier values
\* in the upper limbs, the lower limbs, or both
EndoOutputs == {field(0), field(7), field(16), field(224), field(255)}
\* the constants of Params: two bases and cube roots
EndoParams ==
    {[endo_g1_lo |-> 1, endo_g1_mid |-> 2, endo_g1_hi |-> 1,
      endo_g2_lo |-> 3, endo_g2_mid |-> 1,
      endo_minus_b1_lo |-> 2, endo_minus_b1_mid |-> 1,
      endo_b2_lo |-> 1, endo_b2_mid |-> 3,
      cube_root |-> field(37)],
     [endo_g1_lo |-> 3, endo_g1_mid |-> 3, endo_g1_hi |-> 3,
      endo_g2_lo |-> 3, endo_g2_mid |-> 3,
      endo_minus_b1_lo |-> 3, endo_minus_b1_mid |-> 3,
      endo_b2_lo |-> 1, endo_b2_mid |-> 0,
      cube_root |-> field(21)]}
InitEndo ==
    /\ InitComposer
    /\ sort_input = EmptyVec
    /\ sort_output = EmptyVec
    /\ InitWorkQueue
    /\ call_input \in [params : EndoParams, k : EndoScalars, k1 : EndoOutputs, k2 : EndoOutputs]
    /\ call_output = [call |-> "none"]
NextEndo == SplitIntoEndomorphismScalars
SpecEndo == InitEndo /\ [][NextEndo]_vars

(***************************************************************************)
(* keccak on its own: one call of normalize_and_rotate or of hash on an    *)
(* input drawn at the start.                                               *)
(***************************************************************************)
\* every limb of LaneBits digits with digits in {0, 1, 2}
RECURSIVE SparseLimbs(_)
SparseLimbs(digits) ==
    IF digits = 0 THEN {0}
    ELSE {d + BASE * rest : d \in {0, 1, 2}, rest \in SparseLimbs(digits - 1)}

\* the lengths of the hashed inputs: empty, short, one byte short of a
\* block, a whole block, and more than a block
HashLengths == {0, 1, 3, BLOCK_SIZE - 2, BLOCK_SIZE - 1, BLOCK_SIZE, BLOCK_SIZE + 1,
                2 * BLOCK_SIZE - 1}
\* the bytes of the hashed inputs: byte k is (first + k * step) mod 2^bits
HashInput(length, first, step) ==
    [k \in 0 .. (length - 1) |-> (first + k * step) % Pow2(KeccakByteBits)]
HashInputs == {HashInput(length, first, step) : length \in HashLengths, first \in {0, 3}, step \in {0, 1}}

InitKeccak ==
    /\ InitComposer
    /\ sort_input = EmptyVec /\ sort_output = EmptyVec
    /\ InitWorkQueue
    /\ call_input \in
           {[call |-> "normalize_and_rotate", lane_index |-> i, limb |-> limb] :
                i \in Lanes, limb \in SparseLimbs(LaneBits)}
           \cup {[call |-> "hash", input |-> input] : input \in HashInputs}
    /\ call_output = [call |-> "none"]
NextKeccak ==
    \/ NormalizeAndRotate
    \/ KeccakHash
    \/ KeccakTheta
    \/ KeccakRho
    \/ KeccakPi
    \/ KeccakChi
    \/ KeccakIota
    \/ SpongeAbsorb
    \/ SpongeSqueeze
SpecKeccak == InitKeccak /\ [][NextKeccak]_vars

\* Circuits with public inputs, a RAM array, a ROM array and range lists;
\* get_num_gates is called once, before or after the circuit is finalised.
NextNumGates ==
    \/ /\ call_output.call = "none"
       /\ \/ \E in \in RamValues : Size(variables) < Cardinality(RamValues) /\ AddVariable(in)
          \/ \E witness_index \in Indices(variables) : SetPublicInput(witness_index)
          \/ \E array_size \in RamArraySizes :
                    Size(ram_arrays) < MaxRamArrays /\ CreateRamArray(array_size)
          \/ \E ram_id \in Indices(ram_arrays) :
                \E index \in Indices(ram_arrays[ram_id].state) :
                    Size(variables) > 0 /\ InitRamElement(ram_id, index, 0)
          \/ \E ram_id \in Indices(ram_arrays) : ReadRamArray(ram_id, 0)
          \/ \E array_size \in RomArraySizes : CreateRomArray(array_size)
          \/ \E rom_id \in Indices(rom_arrays) :
                Size(variables) > 0 /\ SetRomElement(rom_id, 0, 0)
          \/ \E rom_id \in Indices(rom_arrays) : ReadRomArray(rom_id, 0)
          \/ \E num_bits \in {3, DEFAULT_PLOOKUP_RANGE_BITNUM} :
                Size(variables) > 0 /\ CreateRangeConstraint(0, num_bits)
          \/ ProcessRamArrays
    \/ GetNumGates

SpecNumGates == Init /\ [][NextNumGates]_vars

\* Circuits with RAM arrays and range lists whose gates are counted: a range
\* constraint of num_bits bits makes the list of target range 2^num_bits.
RamGatesBitnums == {0, 1}

NextRamGates ==
    \/ /\ call_output.call = "none"
       /\ \/ \E in \in {0} : Size(variables) < 1 /\ AddVariable(in)
          \/ \E array_size \in RamArraySizes :
                    Size(ram_arrays) < MaxCountedRamArrays /\ CreateRamArray(array_size)
          \/ \E ram_id \in Indices(ram_arrays) :
                \E index \in Indices(ram_arrays[ram_id].state) :
                    Size(variables) > 0 /\ InitRamElement(ram_id, index, 0)
          \/ \E ram_id \in Indices(ram_arrays) : ReadRamArray(ram_id, 0)
          \/ \E num_bits \in RamGatesBitnums :
                Size(variables) > 0 /\ CreateRangeConstraint(0, num_bits)
    \/ GetNumGatesSplitIntoComponents

SpecRamGates == Init /\ [][NextRamGates]_vars

\* Circuits with tags, and the mapping as Honk and as the generalized
\* permutation compute it.
TagValues == 1 .. MaxTags
TauValues == {1, 2}

NextMapping ==
    \/ \E in \in PermutationWitnessValues :
          ~aborted /\ Size(variables) < MaxVariables /\ AddVariable(in)
    \/ \E w \in Indices(variables) : ~aborted /\ SetPublicInput(w)
    \/ \E a, b, c \in Indices(variables) :
          ~aborted /\ num_gates < MaxMappingGates /\ CreateAddGate(a, b, c, 1, 1, -1, 0)
    \/ \E a, b \in Indices(variables) : ~aborted /\ AssertEqual(a, b)
    \/ \E tag_index \in TagValues \cup {MaxTags + 1}, tau_index \in TauValues :
          ~aborted /\ CreateTag(tag_index, tau_index)
    \/ \E w \in Indices(variables), tag \in TagValues : ~aborted /\ AssignTag(w, tag)
    \/ ~aborted /\ ComputeHonkSigmaPermutations
    \/ ComputeGeneralizedSigmaPermutations

SpecMapping == Init /\ [][NextMapping]_vars

(***************************************************************************)
(* Copy cycles and sigma mapping: claims C2, C3.                           *)
(***************************************************************************)
PermutationComputed == sigmas # EmptyVec

\* The cells of the real gates: wire j of gate i sits in row num_public_inputs + i
GateCells == {cycle_node(j, i + Size(public_inputs)) :
                 j \in 0 .. (program_width - 1), i \in Indices(w_l)}

VariableOfCell(n) == wire_indices(Composer, n.wire_index, n.gate_index - Size(public_inputs))

ClassOfCell(n) == real_variable_index[VariableOfCell(n)]

\* The gate cells whose variable belongs to the class of representative r
GateCellsOf(r) == {n \in GateCells : ClassOfCell(n) = r}

\* The public inputs whose variable belongs to the class of representative r
PublicInputsOf(r) == {i \in Indices(public_inputs) : real_variable_index[public_inputs[i]] = r}

Representatives == {r \in Indices(variables) : real_variable_index[r] = r}

NodesOf(cycle) == {cycle[k] : k \in Indices(cycle)}

\* The cell a sigma element points to
SigmaOf(n) ==
    cycle_node(sigmas[n.wire_index][n.gate_index].column_index,
               sigmas[n.wire_index][n.gate_index].row_index)

RECURSIVE SigmaSteps(_, _)
SigmaSteps(n, k) == IF k = 0 THEN n ELSE SigmaSteps(SigmaOf(n), k - 1)

ReturnsAfterExactly(n, steps) ==
    /\ SigmaSteps(n, steps) = n
    /\ \A k \in 1 .. (steps - 1) : SigmaSteps(n, k) # n

\* C2 as stated: for every variable used in N gate cells, its cycle has exactly N
\* entries and the sigma pointers lead from each of these cells back to it after
\* exactly N steps.
C2_Original ==
    PermutationComputed =>
        \A r \in Representatives :
            LET N == Cardinality(GateCellsOf(r))
            IN N >= 1 =>
                /\ Size(wire_copy_cycles[r]) = N
                /\ \A n \in GateCellsOf(r) : ReturnsAfterExactly(n, N)

\* C2 amended: the cycle of a class used in N gate cells and holding P public
\* inputs has exactly N + 2P entries; when P = 0 the sigma pointers lead from each
\* of its cells back to it after exactly N steps; when P > 0 the cell (0,i) of
\* each public input i points to itself, which breaks the cycle.
C2_Cycles ==
    PermutationComputed =>
        \A r \in Representatives :
            LET N == Cardinality(GateCellsOf(r))
                P == Cardinality(PublicInputsOf(r))
            IN /\ Size(wire_copy_cycles[r]) = N + 2 * P
               /\ Cardinality(NodesOf(wire_copy_cycles[r])) = N + 2 * P
               /\ P = 0 => \A n \in GateCellsOf(r) : ReturnsAfterExactly(n, N)
               /\ \A i \in PublicInputsOf(r) :
                    /\ SigmaOf(cycle_node(0, i)) = cycle_node(0, i)
                    /\ \A n \in GateCellsOf(r) :
                         \A k \in 1 .. (N + 2 * P) : SigmaSteps(n, k) # n

\* A class used in three cells over two gates, without public input, was mapped
C2_Witness ==
    /\ PermutationComputed
    /\ \E r \in Representatives :
         /\ Cardinality(GateCellsOf(r)) >= 3
         /\ PublicInputsOf(r) = {}
         /\ \E n, m \in GateCellsOf(r) : n.gate_index # m.gate_index
         /\ \E v \in Indices(variables) : v # r /\ real_variable_index[v] = r

\* C3: every gate cell is a node of exactly one cycle, the cycle of the class of
\* its variable, exactly once; public input i puts (0,i) and (1,i) next to each
\* other in the cycle of its class, before every gate-cell node of that cycle.
C3_Cycles ==
    PermutationComputed =>
        /\ \A n \in GateCells :
             \A c \in Indices(wire_copy_cycles) :
                Cardinality({k \in Indices(wire_copy_cycles[c]) : wire_copy_cycles[c][k] = n})
                    = IF c = ClassOfCell(n) THEN 1 ELSE 0
        /\ \A i \in Indices(public_inputs) :
             LET cycle == wire_copy_cycles[real_variable_index[public_inputs[i]]]
             IN \E k \in Indices(cycle) :
                  /\ k + 1 \in Indices(cycle)
                  /\ cycle[k] = cycle_node(0, i)
                  /\ cycle[k + 1] = cycle_node(1, i)
                  /\ \A m \in Indices(cycle) : cycle[m] \in GateCells => m > k + 1

\* A public input whose class (merged from two variables) is used in gates
C3_Witness ==
    /\ PermutationComputed
    /\ \E i \in Indices(public_inputs) :
         LET r == real_variable_index[public_inputs[i]]
         IN /\ r # public_inputs[i]
            /\ Cardinality(GateCellsOf(r)) >= 2
    /\ num_gates >= 2

(***************************************************************************)
(* Soft failures: claims C4, C5.                                           *)
(***************************************************************************)
RecursiveProofMessage == "added recursive proof when one already exists"

\* C4: a violation is recorded (failed flag and message) and the call goes on:
\* add_recursive_proof on a circuit that already holds a recursive proof records
\* the failure, and still makes every given witness index a public input and
\* appends its position; assert_equal_constant on a variable whose value differs
\* from the constant records the failure, and still puts the constant variable
\* (with its gate) and merges it into the class of the variable.
C4_SoftFailure ==
    [][ /\ \A p \in SeqsUpTo(Indices(variables), MaxProofOutputs) :
            (contains_recursive_proof /\ AddRecursiveProof(p)) =>
                /\ failed_flag' /\ err_msg' = RecursiveProofMessage
                /\ contains_recursive_proof'
                /\ Size(public_inputs') = Size(public_inputs) + Len(p)
                /\ Size(recursive_proof_public_input_indices')
                      = Size(recursive_proof_public_input_indices) + Len(p)
                /\ \A k \in 1 .. Len(p) :
                      /\ public_inputs'[Size(public_inputs) + k - 1] = p[k]
                      /\ recursive_proof_public_input_indices'
                            [Size(recursive_proof_public_input_indices) + k - 1]
                           = Size(public_inputs) + k - 1
        /\ \A a \in Indices(variables), b \in WitnessValues :
            (variables[a] # b /\ AssertEqualConstant(a, b)) =>
                /\ failed_flag' /\ err_msg' # ""
                /\ \E e \in constant_variable_indices' :
                      /\ e[1] = b
                      /\ variables'[e[2]] = b
                      /\ real_variable_index'[e[2]] = real_variable_index[a]
                      /\ real_variable_index'[a] = real_variable_index[a]
                      /\ \E g \in Indices(w_l') :
                            /\ w_l'[g] = e[2]
                            /\ q_1'[g] = 1 /\ q_c'[g] = -b
      ]_vars

\* Both cases happened: a second recursive proof registered an output, and a
\* constant was merged into the class of a variable of another value
C4_Witness ==
    /\ Size(recursive_proof_public_input_indices) = MaxProofOutputs + 1
    /\ failed_flag /\ err_msg = RecursiveProofMessage
    /\ \E a \in Indices(variables) : \E e \in constant_variable_indices :
          /\ variables[a] # e[1]
          /\ real_variable_index[e[2]] = real_variable_index[a]

C10_AddGate ==
    check_circuit_result # "none" =>
        /\ check_circuit_result = "true" <=>
              \A i \in Indices(w_l) : variables[w_l[i]] + variables[w_r[i]] = variables[w_o[i]]
        /\ (num_gates = 1 /\ w_l[0] = 0 /\ w_r[0] = 1 /\ w_o[0] = 2) =>
              /\ variables = VectorOf(<<3, 4, 7>>) => check_circuit_result = "true"
              /\ variables = VectorOf(<<3, 4, 8>>) => check_circuit_result = "false"

\* The gate on (w1, w2, w3) was checked with w3 = 8 and check_circuit failed
C10_Witness ==
    /\ variables = VectorOf(<<3, 4, 8>>)
    /\ num_gates = 1 /\ w_l[0] = 0 /\ w_r[0] = 1 /\ w_o[0] = 2
    /\ check_circuit_result = "false"

(***************************************************************************)
(* RAM consistency: claims C1, C9.                                         *)
(***************************************************************************)
RamValue(record) == get_variable(Composer, record.value_witness)

\* The writes to the index of record k that carry a smaller timestamp
PriorWrites(records, k) ==
    {j \in Indices(records) :
        /\ records[j].access_type = "WRITE"
        /\ records[j].index = records[k].index
        /\ records[j].timestamp < records[k].timestamp}

LatestPriorWrite(records, k) ==
    CHOOSE j \in PriorWrites(records, k) :
        \A i \in PriorWrites(records, k) : records[i].timestamp <= records[j].timestamp

ReadReturnsLatestWrite(records, k) ==
    /\ PriorWrites(records, k) # {}
    /\ RamValue(records[k]) = RamValue(records[LatestPriorWrite(records, k)])

RamReads(records) == {k \in Indices(records) : records[k].access_type = "READ"}

\* C1: once the circuit is finalised, the consistency check of a RAM array is
\* satisfied exactly when every read of the array returns the value of the
\* latest write to its index with a strictly smaller timestamp; a read that
\* returns any other value makes the check fail.
C1_RamConsistency ==
    circuit_finalised =>
        \A ram_id \in Indices(ram_arrays) :
            RamConsistent(Composer, sorted_ram_records[ram_id])
                <=> \A k \in RamReads(ram_arrays[ram_id].records) :
                        ReadReturnsLatestWrite(ram_arrays[ram_id].records, k)

\* A finalised array in which an index was written twice with different
\* values and a later read returns the older value: the check rejects it.
C1_Witness ==
    /\ circuit_finalised
    /\ \E ram_id \in Indices(ram_arrays) :
          LET records == ram_arrays[ram_id].records
          IN /\ ~RamConsistent(Composer, sorted_ram_records[ram_id])
             /\ \E i, j, k \in Indices(records) :
                   /\ i < j /\ j < k
                   /\ records[i].access_type = "WRITE" /\ records[j].access_type = "WRITE"
                   /\ records[k].access_type = "READ"
                   /\ records[i].index = records[k].index
                   /\ records[j].index = records[k].index
                   /\ RamValue(records[i]) # RamValue(records[j])
                   /\ RamValue(records[k]) = RamValue(records[i])

TimestampsIncrease ==
    \A ram_id \in Indices(ram_arrays) :
        \A j, k \in Indices(ram_arrays[ram_id].records) :
            j < k => ram_arrays[ram_id].records[j].timestamp
                        < ram_arrays[ram_id].records[k].timestamp

AccessAppendsFreshRecord(ram_id) ==
    LET records == ram_arrays[ram_id].records
        records_after == ram_arrays'[ram_id].records
    IN /\ Size(records_after) = Size(records) + 1
       /\ \A k \in Indices(records) : records_after[k] = records[k]
       /\ \A k \in Indices(records) :
             records[k].timestamp < records_after[Size(records)].timestamp

\* C9: the access_count of a RAM array never decreases; every read_RAM_array
\* and write_RAM_array appends exactly one record whose timestamp is larger
\* than every timestamp of the array; so the timestamps of an array are
\* pairwise distinct and strictly increasing in the order of the accesses.
C9_FreshTimestamps ==
    /\ []TimestampsIncrease
    /\ [][\A ram_id \in Indices(ram_arrays) :
            /\ ram_id \in Indices(ram_arrays')
            /\ ram_arrays'[ram_id].access_count >= ram_arrays[ram_id].access_count
            /\ \A index \in Indices(ram_arrays[ram_id].state) :
                  /\ ReadRamArray(ram_id, index) => AccessAppendsFreshRecord(ram_id)
                  /\ \A value_witness \in Indices(variables) :
                        WriteRamArray(ram_id, index, value_witness)
                            => AccessAppendsFreshRecord(ram_id)]_vars

\* An array that took an initialisation, a write and a read.
C9_Witness ==
    \E ram_id \in Indices(ram_arrays) :
        LET records == ram_arrays[ram_id].records
        IN /\ ram_arrays[ram_id].access_count >= 3
           /\ Size(records) = ram_arrays[ram_id].access_count
           /\ \E j, k \in Indices(records) :
                 /\ 0 < j /\ j < k
                 /\ records[j].access_type = "WRITE"
                 /\ records[k].access_type = "READ"

(***************************************************************************)
(* The order of RAM records: claim C8.                                     *)
(***************************************************************************)
SortInputRecords == {sort_input[i] : i \in Indices(sort_input)}

Occurrences(v, record) == Cardinality({i \in Indices(v) : v[i] = record})

SameKey(a, b) == a.index = b.index /\ a.timestamp = b.timestamp

\* RamRecord::operator< is a strict order on (index, timestamp)
StrictLexicographicOrder ==
    \A a, b, c \in SortInputRecords :
        /\ ~RamRecord_lt(a, a)
        /\ RamRecord_lt(a, b) => ~RamRecord_lt(b, a)
        /\ (RamRecord_lt(a, b) /\ RamRecord_lt(b, c)) => RamRecord_lt(a, c)
        /\ RamRecord_lt(a, b) \/ RamRecord_lt(b, a) \/ SameKey(a, b)
        /\ RamRecord_lt(a, b) <=>
              (a.index < b.index \/ (a.index = b.index /\ a.timestamp < b.timestamp))

Sorted == sort_output # EmptyVec

\* The sorted records are the records given, the records of one index are
\* contiguous, and within one index the timestamps do not decrease; they
\* increase strictly between records whose timestamps differ
SortedByIndexAndTimestamp ==
    /\ \A record \in SortInputRecords :
          Occurrences(sort_output, record) = Occurrences(sort_input, record)
    /\ Size(sort_output) = Size(sort_input)
    /\ \A i, j, k \in Indices(sort_output) :
          (i < j /\ j < k /\ sort_output[i].index = sort_output[k].index)
              => sort_output[j].index = sort_output[i].index
    /\ \A i, j \in Indices(sort_output) :
          (i < j /\ sort_output[i].index = sort_output[j].index)
              => /\ sort_output[i].timestamp <= sort_output[j].timestamp
                 /\ ~SameKey(sort_output[i], sort_output[j])
                       => sort_output[i].timestamp < sort_output[j].timestamp
    /\ \A i, j \in Indices(sort_output) :
          i < j => sort_output[i].index <= sort_output[j].index

\* C8: RamRecord::operator< is irreflexive, asymmetric and transitive, and
\* a < b exactly when a.index < b.index, or the indices are equal and
\* a.timestamp < b.timestamp; sorting with it leaves the records of one index
\* contiguous and in increasing timestamp order.
C8_RecordOrder ==
    /\ StrictLexicographicOrder
    /\ Sorted => SortedByIndexAndTimestamp

\* Sorted records of two indices that were given with the larger index first
\* and, within an index, the later timestamp first.
C8_Witness ==
    /\ Sorted
    /\ Size(sort_input) >= 3
    /\ sort_input # sort_output
    /\ \E i, j \in Indices(sort_input) :
          /\ i < j
          /\ sort_input[i].index > sort_input[j].index
    /\ \E i, j \in Indices(sort_input) :
          /\ i < j
          /\ sort_input[i].index = sort_input[j].index
          /\ sort_input[i].timestamp > sort_input[j].timestamp

(***************************************************************************)
(* ROM arrays: claims C6, C7.                                              *)
(***************************************************************************)
\* The cells of the array are set and hold the values given
RomHolds(rom_id, values) ==
    /\ Size(rom_arrays[rom_id].state) = Len(values)
    /\ \A index \in Indices(rom_arrays[rom_id].state) :
          /\ RomCellIsSet(Composer, rom_id, index)
          /\ get_variable(Composer, rom_arrays[rom_id].state[index][0]) = values[index + 1]

ReadReturnsCell(rom_id, index) ==
    /\ Len(read_result') = 1
    /\ read_result'[1] \in Indices(variables')
    /\ variables'[read_result'[1]] = get_variable(Composer, rom_arrays[rom_id].state[index][0])
    /\ (RomHolds(rom_id, <<10, 20, 30, 40>>) /\ index = 2) => variables'[read_result'[1]] = 30
    /\ failed_flag' = failed_flag

ReadRaisesUninitializedAccess ==
    /\ read_result' = <<>>
    /\ failed_flag'
    /\ err_msg' = UninitializedAccessMessage
    /\ variables' = variables

SetOfSetCellIsFatal(rom_id, index) ==
    \A value_witness \in Indices(variables) :
        (SetRomElement(rom_id, index, value_witness) /\ RomCellIsSet(Composer, rom_id, index))
            => aborted' /\ rom_arrays' = rom_arrays

CellKeepsItsValue(rom_id, index) ==
    RomCellIsSet(Composer, rom_id, index) =>
        /\ rom_id \in Indices(rom_arrays')
        /\ rom_arrays'[rom_id].state[index] = rom_arrays[rom_id].state[index]
        /\ get_variable([Composer EXCEPT !.variables = variables'],
                        rom_arrays[rom_id].state[index][0])
              = get_variable(Composer, rom_arrays[rom_id].state[index][0])

\* Every recorded read of an index holds the value of the cell
ReadsAgreeWithCells ==
    \A rom_id \in Indices(rom_arrays) : \A k \in Indices(rom_arrays[rom_id].records) :
        LET record == rom_arrays[rom_id].records[k]
        IN /\ RomCellIsSet(Composer, rom_id, record.index)
           /\ get_variable(Composer, record.value_column1_witness)
                 = get_variable(Composer, rom_arrays[rom_id].state[record.index][0])

RangeListOf(lists, target_range) ==
    IF target_range \in DOMAIN lists THEN lists[target_range] ELSE EmptyVec

\* Row i of the circuit after the step is the identity gate on the variable
IsIdentityGateAfter(i, variable_index) ==
    /\ w_l'[i] = variable_index /\ w_r'[i] = variable_index /\ w_o'[i] = variable_index
    /\ q_m'[i] = 0 /\ q_1'[i] = 1 /\ q_2'[i] = -1 /\ q_3'[i] = 0 /\ q_c'[i] = 0

\* The variables the step registered in a range list, with their targets
NewRangeEntries ==
    {e \in (DOMAIN range_lists') \X Indices(variables') :
        \E k \in Indices(range_lists'[e[1]]) :
            /\ range_lists'[e[1]][k] = e[2]
            /\ k >= Size(RangeListOf(range_lists, e[1]))}

RECURSIVE LimbSum(_, _)
LimbSum(limbs, weight) ==
    IF limbs = {}
    THEN 0
    ELSE LET lowest == CHOOSE l \in limbs : \A m \in limbs : l <= m
         IN variables'[lowest] * weight
              + LimbSum(limbs \ {lowest}, weight * Pow2(DEFAULT_PLOOKUP_RANGE_BITNUM))

SingleGateAndRangeList(variable_index, num_bits) ==
    /\ Size(w_l') = Size(w_l) + 1
    /\ IsIdentityGateAfter(Size(w_l), variable_index)
    /\ \A value \in RangeWitnessValues :
          gate_sum([Composer' EXCEPT !.variables[variable_index] = value], Size(w_l)) = 0
    /\ variables' = variables
    /\ NewRangeEntries = {<<Pow2(num_bits), variable_index>>}
    /\ Size(range_lists'[Pow2(num_bits)])
          = Size(RangeListOf(range_lists, Pow2(num_bits))) + 1

DecomposedIntoLimbs(variable_index, num_bits) ==
    LET limbs == {e[2] : e \in NewRangeEntries}
    IN /\ \A i \in Indices(w_l') : i >= Size(w_l) => ~IsIdentityGateAfter(i, variable_index)
       /\ \A e \in NewRangeEntries :
             /\ e[2] >= Size(variables)
             /\ e[1] <= Pow2(DEFAULT_PLOOKUP_RANGE_BITNUM) - 1
             /\ variables'[e[2]] <= Pow2(DEFAULT_PLOOKUP_RANGE_BITNUM) - 1
       /\ Cardinality(limbs)
             = (num_bits + DEFAULT_PLOOKUP_RANGE_BITNUM - 1) \div DEFAULT_PLOOKUP_RANGE_BITNUM
       /\ LimbSum(limbs, 1) = variables[variable_index]

\* C11: create_range_constraint with num_bits <= DEFAULT_PLOOKUP_RANGE_BITNUM
\* adds exactly one gate, on (var, var, var) with q_1 = 1, q_2 = -1 and every
\* other coefficient 0, which every value of var satisfies, and registers var
\* in the range list of 2^num_bits; with more bits it adds no such gate and
\* registers limbs of at most DEFAULT_PLOOKUP_RANGE_BITNUM bits that sum to var.
C11_RangeConstraint ==
    [][\A variable_index \in Indices(variables), num_bits \in RangeBitnums :
          CreateRangeConstraint(variable_index, num_bits) =>
              IF num_bits <= DEFAULT_PLOOKUP_RANGE_BITNUM
              THEN SingleGateAndRangeList(variable_index, num_bits)
              ELSE DecomposedIntoLimbs(variable_index, num_bits)]_vars

\* A variable constrained to DEFAULT_PLOOKUP_RANGE_BITNUM bits and a variable
\* constrained to one bit more, decomposed into two limbs.
C11_Witness ==
    /\ Pow2(DEFAULT_PLOOKUP_RANGE_BITNUM) \in DOMAIN range_lists
    /\ (Pow2(DEFAULT_PLOOKUP_RANGE_BITNUM) - 1) \in DOMAIN range_lists
    /\ 1 \in DOMAIN range_lists
    /\ \E i \in Indices(w_l) : q_1[i] = 1 /\ q_2[i] = -1 /\ w_l[i] = w_o[i]
    /\ \E i \in Indices(w_l) : q_2[i] = Pow2(DEFAULT_PLOOKUP_RANGE_BITNUM)

(***************************************************************************)
(* The work queue: claim C12.                                              *)
(***************************************************************************)
QueuedMessage(k) ==
    [label |-> work_item_queue[k].label,
     element |-> commit(work_item_queue[k].mul_scalars)]

SendsQueueInOrder ==
    /\ Size(transcript') = Size(transcript) + Size(work_item_queue)
    /\ \A k \in Indices(transcript) : transcript'[k] = transcript[k]
    /\ \A k \in Indices(work_item_queue) :
          transcript'[Size(transcript) + k] = QueuedMessage(k)
    /\ work_item_queue' = EmptyVec

AddsAtTheEnd(polynomial, label) ==
    /\ Size(work_item_queue') = Size(work_item_queue) + 1
    /\ \A k \in Indices(work_item_queue) : work_item_queue'[k] = work_item_queue[k]
    /\ work_item_queue'[Size(work_item_queue)].label = label
    /\ work_item_queue'[Size(work_item_queue)].mul_scalars = polynomial
    /\ transcript' = transcript

\* C12: add_commitment puts the item at the end of the queue; process_queue
\* sends exactly one (label, commitment) message per queued item, in the
\* order of the queue, after the messages sent before, and leaves the queue
\* empty.
C12_ProcessQueue ==
    /\ [][ProcessQueue => SendsQueueInOrder]_vars
    /\ [][\A polynomial \in Polynomials, label \in Labels :
            AddCommitment(polynomial, label) => AddsAtTheEnd(polynomial, label)]_vars

\* The queue is empty and the transcript holds the commitments to two
\* different polynomials under two different labels.
C12_Witness ==
    /\ work_item_queue = EmptyVec
    /\ Size(transcript) = MaxQueue
    /\ \E j, k \in Indices(transcript) :
          /\ j < k
          /\ transcript[j].label # transcript[k].label
          /\ transcript[j].element # transcript[k].element

(***************************************************************************)
(* C13: reading back what write has written gives the element: for every   *)
(* field element x, read(write(x)) == x, and the buffer holds the          *)
(* canonical value of x as one big-endian number, the most significant     *)
(* limb first.                                                             *)
(***************************************************************************)
C13_RoundTrip ==
    call_output.call = "read" =>
        /\ field_eq(call_output.value, call_input[0])
        /\ Len(call_output.buf) = 4 * BytesPerLimb
        /\ read_bytes(call_output.buf, 4 * BytesPerLimb, 0)
               = uint256(from_montgomery_form(call_input[0]))

\* a read of the written form of an element that is not fully reduced and
\* whose limbs are not all alike
C13_Witness ==
    /\ call_output.call = "read"
    /\ uint256(call_input[0]) >= modulus_value
    /\ call_input[0][0] # call_input[0][1]
    /\ call_output.buf[1] # call_output.buf[4 * BytesPerLimb]

(***************************************************************************)
(* C14: for every element a other than zero, a * a.invert() == one; the    *)
(* inverse of zero is zero.                                                *)
(***************************************************************************)
C14_Invert ==
    call_output.call = "invert" =>
        IF is_zero(call_input[0])
        THEN field_eq(call_output.value, zero)
        ELSE field_eq(montgomery_mul(call_input[0], call_output.value), one)

\* an inversion of an element that is neither zero nor its own inverse
C14_Witness ==
    /\ call_output.call = "invert"
    /\ ~is_zero(call_input[0])
    /\ ~field_eq(call_output.value, call_input[0])

(***************************************************************************)
(* C15: batch_invert replaces each of the n >= 1 elements, in place and in *)
(* order, by its invert().                                                 *)
(***************************************************************************)
C15_BatchInvert ==
    call_output.call = "batch_invert" =>
        /\ Size(call_output.coeffs) = Size(call_input)
        /\ \A i \in Indices(call_input) :
               field_eq(call_output.coeffs[i], invert(call_input[i]))

\* a batch of three elements, two of them different and not zero
C15_Witness ==
    /\ call_output.call = "batch_invert"
    /\ Size(call_input) = 3
    /\ ~is_zero(call_input[0])
    /\ ~is_zero(call_input[2])
    /\ ~field_eq(call_input[0], call_input[2])
    /\ ~field_eq(call_output.coeffs[0], call_output.coeffs[2])


(***************************************************************************)
(* C17: for every input byte array, of any length, lengths of more than    *)
(* one block included, the digest that keccak::hash computes on witnesses  *)
(* equals hash_native of the same bytes.                                   *)
(***************************************************************************)
C17_HashEqualsNative ==
    HashAt("done") => call_output.result = hash_native(call_input.input)

\* the inputs on which the two padding bytes of hash are different bytes
C17_PaddingBytesApart ==
    (HashAt("done") /\ Size(call_input.input) % BLOCK_SIZE # BLOCK_SIZE - 1)
        => call_output.result = hash_native(call_input.input)

\* a finished hash of an input of more than one block
C17_Witness ==
    /\ HashAt("done")
    /\ Size(call_input.input) > BLOCK_SIZE
    /\ Size(call_input.input) % BLOCK_SIZE # BLOCK_SIZE - 1
    /\ \E k \in Indices(call_output.result) : call_output.result[k] # 0

(***************************************************************************)
(* C18: for every lane i in 0 .. 24 and every limb whose digits are in     *)
(* {0, 1, 2}, normalize_and_rotate<i> returns the sparse form of the word  *)
(* whose bits are (digit & 1), rotated left by ROTATIONS[i], and sets msb  *)
(* to the top bit of the word before the rotation.                         *)
(***************************************************************************)
\* the word whose bit i is digit i of the limb, taken & 1
RECURSIVE ParityWord(_, _)
ParityWord(limb, digits) ==
    IF digits = 0 THEN 0
    ELSE ((limb % BASE) % 2) + 2 * ParityWord(limb \div BASE, digits - 1)

ChiDigits ==
    \A A \in {0, 1}, B \in {0, 1}, C \in {0, 1} :
        LET digit == 1 + 2 * A - B + C
        IN /\ digit \in 0 .. 4
           /\ chi_normalization_table[digit] = (A + (1 - B) * C) % 2

ChiOfLanes ==
    KeccakChi =>
        \A k \in Lanes :
            LET A == convert_from_sparse(call_output.internal.state[k])
                B == convert_from_sparse(
                         call_output.internal.state[(k \div 5) * 5 + (((k % 5) + 1) % 5)])
                C == convert_from_sparse(
                         call_output.internal.state[(k \div 5) * 5 + (((k % 5) + 2) % 5)])
                word == BitXor(A, BitAndNot(B, C))
            IN /\ call_output'.internal.state[k] = convert_to_sparse(word)
               /\ call_output'.internal.state_msb[k] = word \div Pow2(LaneBits - 1)

C19_Chi == []ChiDigits /\ [][ChiOfLanes]_vars

\* after chi, a row whose first lane has its top bit set and differs from
\* what it was xored from
C19_Witness ==
    /\ HashAt("iota")
    /\ call_output.round > 0
    /\ call_output.internal.state_msb[0] = 1
    /\ call_output.internal.state[1] # 0
    /\ call_output.internal.state[2] # 0
    /\ call_output.internal.state[0] # call_output.internal.state[1]

(***************************************************************************)
(* C20: get_num_gates returns the final number of gates of the circuit:    *)
(* before finalisation the sum of the current number of gates, the number  *)
(* of public inputs, the ROM-array gates, the RAM gates and the range-list *)
(* gates; once circuit_finalised is set, num_gates unchanged.              *)
(***************************************************************************)
C20_NumGates ==
    call_output.call = "get_num_gates" =>
        LET components == get_num_gates_split_into_components(Composer)
        IN call_output.value =
               IF circuit_finalised THEN num_gates
               ELSE num_gates + Size(public_inputs) + components.romcount
                        + components.ramcount + components.rangecount

\* a call on a circuit not finalised, with a public input, a RAM array, a ROM
\* array and a range list
C20_Witness ==
    /\ call_output.call = "get_num_gates"
    /\ ~circuit_finalised
    /\ Size(public_inputs) > 0
    /\ Size(ram_arrays) > 0
    /\ Size(rom_arrays) > 0
    /\ DOMAIN range_lists # {}
    /\ call_output.value > num_gates

(***************************************************************************)
(* Public inputs in the sigma mapping and in the Honk-style polynomials:   *)
(* claim C21.                                                              *)
(***************************************************************************)
\* The cells of the mapping: wire and row
MappingCells == (0 .. (program_width - 1)) \X (0 .. (circuit_size(Composer) - 1))

IsPublicInputCell(cell) == cell[1] = 0 /\ cell[2] < Size(public_inputs)

\* C21: after compute_permutation_mapping (generalized or not) the cell
\* sigmas[0][i] of every public input i has row_index i, column_index 0 and
\* is_public_input set, and no other cell has is_public_input set; the
\* Honk-style sigma polynomial is -(row_index + 1 + n * column_index) at such a
\* cell and row_index + n * column_index at every other cell.
C21_PublicInputCells ==
    PermutationComputed =>
        LET n == circuit_size(Composer)
        IN \A cell \in MappingCells :
              LET e == sigmas[cell[1]][cell[2]]
              IN /\ IsPublicInputCell(cell) =>
                       /\ e.row_index = cell[2]
                       /\ e.column_index = 0
                       /\ e.is_public_input
                 /\ ~IsPublicInputCell(cell) => ~e.is_public_input
                 /\ sigma_lagrange # EmptyVec =>
                       IF e.is_public_input
                       THEN (sigma_lagrange[cell[1]][cell[2]]
                                 + e.row_index + 1 + n * e.column_index) % modulus_value = 0
                       ELSE sigma_lagrange[cell[1]][cell[2]]
                                = e.row_index + n * e.column_index

\* A public input whose variable is also in a gate, with the polynomials computed
C21_Witness ==
    /\ sigma_lagrange # EmptyVec
    /\ Size(public_inputs) > 0
    /\ num_gates > 0
    /\ \E i \in Indices(public_inputs) :
          Size(wire_copy_cycles[real_variable_index[public_inputs[i]]]) > 2
    /\ sigma_lagrange[0][0] = modulus_value - 1

(***************************************************************************)
(* Tags in the generalized permutation mapping: claim C22.                 *)
(***************************************************************************)
GeneralizedComputed == PermutationComputed /\ ids # EmptyVec

NonGeneralizedComputed == PermutationComputed /\ ids = EmptyVec

SigmaCell(n) == sigmas[n.wire_index][n.gate_index]

IdCell(n) == ids[n.wire_index][n.gate_index]

PointsTo(e, n) ==
    /\ e.row_index = n.gate_index
    /\ e.column_index = n.wire_index
    /\ ~e.is_tag

\* The first id cell and the last sigma cell of the cycle of variable c carry
\* the tag and tau(tag)
CycleEndsTagged(c) ==
    LET cycle == wire_copy_cycles[c]
        tag == real_variable_tags[c]
    IN /\ IdCell(cycle[0]).is_tag
       /\ IdCell(cycle[0]).row_index = tag
       /\ SigmaCell(cycle[Size(cycle) - 1]).is_tag
       /\ SigmaCell(cycle[Size(cycle) - 1]).row_index = tau[tag]

NoSigmaTag == \A cell \in MappingCells : ~sigmas[cell[1]][cell[2]].is_tag

\* C22 as stated: in the generalized mapping the id cell of the first node of
\* every non-empty cycle is marked is_tag with the tag of the cycle's variable,
\* the sigma cell of the last node is marked is_tag with tau(tag), and every
\* other sigma cell of the cycle points to the next node; in the non-generalized
\* mapping no sigma cell is marked is_tag.
C22_Original ==
    /\ GeneralizedComputed =>
          \A c \in Indices(wire_copy_cycles) :
             Size(wire_copy_cycles[c]) > 0 =>
                /\ CycleEndsTagged(c)
                /\ \A k \in 0 .. (Size(wire_copy_cycles[c]) - 2) :
                      PointsTo(SigmaCell(wire_copy_cycles[c][k]), wire_copy_cycles[c][k + 1])
    /\ NonGeneralizedComputed => NoSigmaTag

\* C22 (amended): as above, except that the sigma cell (0, i) of a public input i
\* does not point to the next node: it points to itself, is marked
\* is_public_input and is not marked is_tag.
C22_Tags ==
    /\ GeneralizedComputed =>
          \A c \in Indices(wire_copy_cycles) :
             Size(wire_copy_cycles[c]) > 0 =>
                /\ CycleEndsTagged(c)
                /\ \A k \in 0 .. (Size(wire_copy_cycles[c]) - 2) :
                      LET n == wire_copy_cycles[c][k]
                      IN IF IsPublicInputCell(<<n.wire_index, n.gate_index>>)
                         THEN /\ PointsTo(SigmaCell(n), n)
                              /\ SigmaCell(n).is_public_input
                         ELSE /\ PointsTo(SigmaCell(n), wire_copy_cycles[c][k + 1])
                              /\ ~SigmaCell(n).is_public_input
    /\ NonGeneralizedComputed => NoSigmaTag

\* A generalized mapping of a circuit with a public input in a gate, whose
\* variable has a tag that tau sends elsewhere
C22_Witness ==
    /\ GeneralizedComputed
    /\ \E i \in Indices(public_inputs) :
          LET c == real_variable_index[public_inputs[i]]
          IN /\ Size(wire_copy_cycles[c]) > 2
             /\ real_variable_tags[c] # DUMMY_TAG
             /\ tau[real_variable_tags[c]] # real_variable_tags[c]

(***************************************************************************)
(* Range-check gates of the RAM timestamps: claim C23.                     *)
(***************************************************************************)
ComponentsReturned == call_output.call = "get_num_gates_split_into_components"

\* the gates of the range lists themselves
RangeListGates ==
    SumOf([t \in DOMAIN range_lists |-> range_list_gates(range_lists[t])], DOMAIN range_lists)

\* gates of the timestamp range check of max timestamp t (padding as for a list)
TimestampCheckGates(t) == ((t + list_padding(t)) % SizeModulus) \div gate_width + 1

\* the max timestamps of the RAM arrays that are the target range of no range list
UnlistedTimestamps ==
    {max_timestamp(ram_arrays[i]) : i \in Indices(ram_arrays)} \ DOMAIN range_lists

ArraysWithTimestamp(t) == {i \in Indices(ram_arrays) : max_timestamp(ram_arrays[i]) = t}

\* C23 as stated: RAM arrays that share a max timestamp have the gates of
\* their timestamp range check counted once in rangecount, and a RAM array
\* whose max timestamp is the target range of a range list adds none.
C23_Original ==
    ComponentsReturned =>
        call_output.components.rangecount =
            RangeListGates
                + SumOf([t \in UnlistedTimestamps |-> TimestampCheckGates(t)],
                        UnlistedTimestamps)

\* C23 (amended): the gates of the timestamp range check are counted once for
\* each RAM array, also when arrays share a max timestamp, unless the max
\* timestamp is the target range of a range list: such an array adds none.
C23_RamRangeGates ==
    ComponentsReturned =>
        call_output.components.rangecount =
            RangeListGates
                + SumOf([t \in UnlistedTimestamps |->
                            Cardinality(ArraysWithTimestamp(t)) * TimestampCheckGates(t)],
                        UnlistedTimestamps)

\* Two RAM arrays with one access each and no range list of target range 0
C23_Witness ==
    /\ ComponentsReturned
    /\ Size(ram_arrays) = 2
    /\ ram_arrays[0].access_count = 1
    /\ ram_arrays[1].access_count = 1
    /\ call_output.components.rangecount = RangeListGates + 2

(***************************************************************************)
(* PI permutes the lanes: claim C24.                                       *)
(***************************************************************************)
\* where the lane at index 5 * y + x goes: index 5 * v + u
PiTarget(k) ==
    LET x == k % 5
        y == k \div 5
        u == y % 5
        v == (2 * x + 3 * y) % 5
    IN v * 5 + u

PiIsBijection ==
    /\ {PiTarget(k) : k \in Lanes} = Lanes
    /\ \A j, k \in Lanes : PiTarget(j) = PiTarget(k) => j = k

LanesWithValue(state, value) == {k \in Lanes : state[k] = value}

PiMovesLanes ==
    KeccakPi =>
        /\ \A k \in Lanes :
              call_output'.internal.state[PiTarget(k)] = call_output.internal.state[k]
        /\ \A k \in Lanes :
              Cardinality(LanesWithValue(call_output'.internal.state,
                                         call_output.internal.state[k]))
                  = Cardinality(LanesWithValue(call_output.internal.state,
                                               call_output.internal.state[k]))
        /\ call_output'.internal.state_msb = call_output.internal.state_msb

PaddingMarkers(k, input_size, blocks_length) ==
    (IF k = input_size THEN 1 ELSE 0)
        + (IF k = blocks_length - 1 THEN Pow2(KeccakByteBits - 1) ELSE 0)

\* C25: hash pads an input of L bytes to BLOCK_SIZE * (L div BLOCK_SIZE + 1)
\* bytes: the input bytes unchanged, the start marker 0x01 in the byte at
\* offset L, the end marker (the top bit) in the last byte, zero in between,
\* and both markers in one byte when L mod BLOCK_SIZE = BLOCK_SIZE - 1.
C25_Padding ==
    call_output.call = "hash" =>
        LET input == call_input.input
            L == Size(input)
            blocks_length == BLOCK_SIZE * (L \div BLOCK_SIZE + 1)
            padded == block_bytes_of(input)
        IN /\ Size(padded) = blocks_length
           /\ \A k \in Indices(padded) :
                 padded[k] = IF k < L THEN input[k]
                             ELSE PaddingMarkers(k, L, blocks_length)

\* a hash of an input that ends one byte before the end of a block
C25_Witness ==
    /\ call_output.call = "hash"
    /\ Size(call_input.input) % BLOCK_SIZE = BLOCK_SIZE - 1

(***************************************************************************)
(* C26: over any sequence of add_commitment, put_scalar_multiplication_data,*)
(* process_queue and flush_queue calls each queued commitment is sent to   *)
(* the transcript at most once.  When every commitment is queued under a   *)
(* label of its own, this says that no label is sent twice.                *)
(***************************************************************************)
C26_SentAtMostOnce ==
    \A j, k \in Indices(transcript) :
        transcript[j].label = transcript[k].label => j = k

\* the result of a queued item has been put and the item is still queued
C26_Witness ==
    \E k \in Indices(work_item_queue) : \E j \in Indices(transcript) :
        transcript[j].label = work_item_queue[k].label

(***************************************************************************)
(* The sigma mapping of a circuit without public inputs: claim C27.        *)
(***************************************************************************)
CellNodes == {cycle_node(cell[1], cell[2]) : cell \in MappingCells}

\* C27: for a circuit with no public inputs the non-generalized sigma mapping
\* is a bijection on the cells {0 .. program_width - 1} x {0 .. circuit_size - 1},
\* and every cell of a row that holds no gate (row >= num_gates) maps to itself.
C27_Bijection ==
    (NonGeneralizedComputed /\ Size(public_inputs) = 0) =>
        /\ \A n \in CellNodes : SigmaOf(n) \in CellNodes
        /\ \A n, m \in CellNodes : SigmaOf(n) = SigmaOf(m) => n = m
        /\ {SigmaOf(n) : n \in CellNodes} = CellNodes
        /\ \A n \in CellNodes : n.gate_index >= num_gates => SigmaOf(n) = n

\* two gates, no public input, a class of two merged variables in both gates
C27_Witness ==
    /\ NonGeneralizedComputed
    /\ Size(public_inputs) = 0
    /\ num_gates = 2
    /\ \E r \in Representatives :
          /\ \E n, m \in GateCellsOf(r) : n.gate_index # m.gate_index
          /\ \E v \in Indices(variables) : v # r /\ real_variable_index[v] = r
    /\ \E n \in CellNodes : SigmaOf(n) # n

(***************************************************************************)
(* Public input and tag on one cell: claim C28.                            *)
(***************************************************************************)
\* C28: no sigma cell is both is_public_input and is_tag, in the generalized
\* and in the non-generalized mapping of every circuit: the node (0, i) of a
\* public input i is followed by (1, i) in its cycle, so it is never the last
\* node of a cycle.
C28_NoTaggedPublicInput ==
    PermutationComputed =>
        /\ \A cell \in MappingCells :
              ~(sigmas[cell[1]][cell[2]].is_public_input /\ sigmas[cell[1]][cell[2]].is_tag)
        /\ \A c \in Indices(wire_copy_cycles) : \A k \in Indices(wire_copy_cycles[c]) :
              IsPublicInputCell(<<wire_copy_cycles[c][k].wire_index,
                                  wire_copy_cycles[c][k].gate_index>>)
                  => /\ k + 1 \in Indices(wire_copy_cycles[c])
                     /\ wire_copy_cycles[c][k + 1]
                            = cycle_node(1, wire_copy_cycles[c][k].gate_index)

\* a generalized mapping of a circuit whose public input is in no gate: its
\* cycle is (0, i), (1, i) and the tag is on the cell of (1, i)
C28_Witness ==
    /\ GeneralizedComputed
    /\ num_gates > 0
    /\ \E i \in Indices(public_inputs) :
          /\ Size(wire_copy_cycles[real_variable_index[public_inputs[i]]]) = 2
          /\ sigmas[1][i].is_tag
          /\ sigmas[0][i].is_public_input

(***************************************************************************)
(* The timestamps of a RAM array without accesses: claim C29.              *)
(***************************************************************************)
\* C29: in every reachable state, a RAM array that was never accessed
\* included, get_num_gates_split_into_components computes max_timestamp =
\* access_count - 1 and the padded size of the range list without wrap-around
\* of the unsigned numbers, and the array adds (max_timestamp + padding) / 4 + 1
\* range-check gates unless a range list has its max timestamp as target range.
C29_NoWrapAround ==
    ComponentsReturned =>
        /\ \A i \in Indices(ram_arrays) :
              LET true_max_timestamp == ram_arrays[i].access_count - 1
              IN /\ max_timestamp(ram_arrays[i]) = true_max_timestamp
                 /\ true_max_timestamp >= 0
                 /\ true_max_timestamp + list_padding(true_max_timestamp) < SizeModulus
        /\ call_output.components.rangecount =
              RangeListGates
                  + SumOf([i \in Indices(ram_arrays) |->
                              IF ram_arrays[i].access_count - 1 \in DOMAIN range_lists THEN 0
                              ELSE (ram_arrays[i].access_count - 1
                                       + list_padding(ram_arrays[i].access_count - 1))
                                           \div gate_width + 1],
                          Indices(ram_arrays))

\* the gates were counted with a RAM array that has no access
C29_Witness ==
    /\ ComponentsReturned
    /\ \E i \in Indices(ram_arrays) : ram_arrays[i].access_count = 0
    /\ \E i \in Indices(ram_arrays) : ram_arrays[i].access_count > 0

(***************************************************************************)
(* The frame of the endomorphism split: claim C30.                         *)
(***************************************************************************)
SplitReturned == call_output.call = "split_into_endomorphism_scalars"
UpperLimbsZero(a) == a[2] = 0 /\ a[3] = 0

\* C30: with a modulus whose top limb is below a quarter of the limb range,
\* after split_into_endomorphism_scalars(k, k1, k2) limbs 2 and 3 of k1 and
\* of k2 are what the caller passed, limbs 0 and 1 are the low limbs of t2
\* and of t1, k is what it was, and so k1 and k2 are half-width after the
\* call exactly when the caller passed them with limbs 2 and 3 at zero.
C30_Frame ==
    SplitReturned =>
        /\ modulus[3] < LimbRadix \div 4
        /\ call_output.after.k = call_input.k
        /\ \A i \in {2, 3} :
              /\ call_output.after.k1[i] = call_input.k1[i]
              /\ call_output.after.k2[i] = call_input.k2[i]
        /\ \A i \in {0, 1} :
              /\ call_output.after.k1[i] = endomorphism_t2(call_input.params, call_input.k)[i]
              /\ call_output.after.k2[i] = endomorphism_t1(call_input.params, call_input.k)[i]
        /\ UpperLimbsZero(call_output.after.k1) <=> UpperLimbsZero(call_input.k1)
        /\ UpperLimbsZero(call_output.after.k2) <=> UpperLimbsZero(call_input.k2)

\* the call was made on outputs with upper limbs set, its low limbs were
\* overwritten, and t2 itself has a non-zero upper limb
C30_Witness ==
    /\ SplitReturned
    /\ ~UpperLimbsZero(call_input.k1)
    /\ ~UpperLimbsZero(call_input.k2)
    /\ call_output.after.k1 # call_input.k1
    /\ call_output.after.k2 # call_input.k2
    /\ ~UpperLimbsZero(endomorphism_t2(call_input.params, call_input.k))

====
